---- MODULE Spec2Model ----
(***************************************************************************)
(* A model of github.com/go-sqlt/datahash (the Unordered-options Hasher,   *)
(* src/datahash.go 1779-2795): the type-to-encoder compiler makeHashFunc   *)
(* with its cache and visited-types list, the encoders it builds, the      *)
(* pooled containers, and Hasher.Hash.                                     *)
(***************************************************************************)
EXTENDS Integers, Sequences, FiniteSets, Bags, TLC

VARIABLES
    scn,          \* the scenario: the Options given to New and the values the callers hash
    opts,         \* Hasher.opts
    hashFuncMap,  \* Hasher.hashFuncMap: reflect.Type -> hashFunc
    visited,      \* Hasher.visited: []reflect.Type
    containers,   \* every *container made by containerPool.New, by identity
    pool,         \* the containers idle in Hasher.containerPool
    calls,        \* number of Hash calls made
    last,         \* what the latest Hash call was given and returned
    res,          \* per input: what the latest Hash call on that input returned
    crashed,      \* the process died: a goroutine stack overflow, or a panic
    th            \* the concurrent callers: each one's position inside Hash

vars == <<scn, opts, hashFuncMap, visited, containers, pool, calls, last, res, crashed, th>>

(***************************************************************************)
(* Bounds of the model.                                                    *)
(***************************************************************************)
HashBits == 16   \* width of the accumulator's digest (uint64 in the code)
MaxDepth == 6    \* nested encoder calls a goroutine stack holds before it overflows
MaxCalls == 3    \* sequential Hash calls explored on one Hasher
MaxFail == 2     \* the accumulator write that fails is one of the first MaxFail
MaxConcCalls == 2 \* Hash calls explored when the callers run concurrently

(***************************************************************************)
(* Bytes, words and the accumulator (hash.Hash64).                         *)
(***************************************************************************)
Pow2(n) == 2 ^ n

\* a ^ b on words of n bits: the bits where a and b differ, each with its weight
XorBits(a, b, n) ==
    LET differ == {i \in 0..(n - 1) : (a \div Pow2(i)) % 2 /= (b \div Pow2(i)) % 2}
    IN BagCardinality([i \in differ |-> Pow2(i)])

\* result ^= x on digests
Xor(a, b) == XorBits(a, b, HashBits)

RECURSIVE LEBytes(_, _)
LEBytes(v, k) == IF k = 0 THEN <<>> ELSE <<v % 256>> \o LEBytes(v \div 256, k - 1)

\* a mutant of PutUint64: the value keeps the width of its own kind and is
\* zero-extended
PutUint64ZeroExtended(v) == LEBytes(IF v < 0 THEN v + 256 ELSE v, 8)

\* binary.LittleEndian.PutUint64(c.buf[:], v): two's complement, 8 bytes
PutUint64(v) == LEBytes(v, 8)

FnvOffset == 33052
FnvPrime == 403

RECURSIVE fnvRange(_, _, _, _)
\* the accumulator h after the bytes b[i..j] were fed to it, in their order
fnvRange(h, b, i, j) ==
    IF i > j \/ h < 0 THEN h
    ELSE IF i = j THEN (XorBits(h, b[i], HashBits) * FnvPrime) % Pow2(HashBits)
    ELSE LET m == (i + j) \div 2 IN fnvRange(fnvRange(h, b, i, m), b, m + 1, j)

\* hash.Write(b): for every byte, h ^= byte; h *= prime
fnvWrite(h, b) == fnvRange(h, b, 1, Len(b))

\* c.hash.Sum64() of an accumulator that was reset and then fed the bytes b
Sum64(b) == fnvWrite(FnvOffset % Pow2(HashBits), b)

byteFalse == <<0>>
byteTrue == <<1>>
colon == <<2>>
comma == <<3>>
startSet == <<4>>
endSet == <<5>>
startList == <<6>>
endList == <<7>>

Contains(s, x) == \E i \in 1..Len(s) : s[i] = x

(***************************************************************************)
(* reflect.Type: the types of the values hashed.                           *)
(***************************************************************************)
T(kind, elem, key, fields, impl) ==
    [kind |-> kind, elem |-> elem, key |-> key, fields |-> fields, impl |-> impl]

\* reflect.StructField: Name (as bytes), Type, Tag.Get("datahash")
SF(name, type, tag) == [name |-> name, type |-> type, tag |-> tag]

TypeInfo ==
    [ int       |-> T("Int", "", "", <<>>, {}),
      int8      |-> T("Int8", "", "", <<>>, {}),
      int16     |-> T("Int16", "", "", <<>>, {}),
      int64     |-> T("Int64", "", "", <<>>, {}),
      uint8     |-> T("Uint8", "", "", <<>>, {}),
      uint64    |-> T("Uint64", "", "", <<>>, {}),
      float32   |-> T("Float32", "", "", <<>>, {}),
      float64   |-> T("Float64", "", "", <<>>, {}),
      complex128 |-> T("Complex128", "", "", <<>>, {}),
      bool      |-> T("Bool", "", "", <<>>, {}),
      string    |-> T("String", "", "", <<>>, {}),
      func      |-> T("Func", "", "", <<>>, {}),                     \* func()
      any       |-> T("Interface", "", "", <<>>, {}),                \* interface{}
      pint      |-> T("Pointer", "int", "", <<>>, {}),               \* *int
      slpint    |-> T("Slice", "pint", "", <<>>, {}),                \* []*int
      slany     |-> T("Slice", "any", "", <<>>, {}),                 \* []any
      pslany    |-> T("Pointer", "slany", "", <<>>, {}),             \* *[]any
      slstring  |-> T("Slice", "string", "", <<>>, {}),              \* []string
      mapstrint |-> T("Map", "int", "string", <<>>, {}),             \* map[string]int
      mapstrany |-> T("Map", "any", "string", <<>>, {}),             \* map[string]any
      pmapstrany |-> T("Pointer", "mapstrany", "", <<>>, {}),        \* *map[string]any
      \* type node struct { Value int; Next *node }
      node      |-> T("Struct", "", "",
                      << SF(<<86, 97, 108, 117, 101>>, "int", ""),
                         SF(<<78, 101, 120, 116>>, "pnode", "") >>, {}),
      pnode     |-> T("Pointer", "node", "", <<>>, {}),              \* *node
      \* struct { A int; F func() }
      sfunc     |-> T("Struct", "", "",
                      << SF(<<65>>, "int", ""), SF(<<70>>, "func", "") >>, {}),
      \* struct { Secret string `datahash:"-"`; X int }
      excl      |-> T("Struct", "", "",
                      << SF(<<83, 101, 99, 114, 101, 116>>, "string", "-"),
                         SF(<<88>>, "int", "") >>, {}),
      \* type customHash struct { Value string }, with a WriteHash method
      customHash |-> T("Struct", "", "",
                      << SF(<<86, 97, 108, 117, 101>>, "string", "") >>, {"HashWriter"}),
      \* *customHash and *binaryMarshaler: the method set of *T holds the methods of T
      pcustomHash |-> T("Pointer", "customHash", "", <<>>, {"HashWriter"}),
      pbinaryMarshaler |-> T("Pointer", "binaryMarshaler", "", <<>>, {"BinaryMarshaler"}),
      slint     |-> T("Slice", "int", "", <<>>, {}),                 \* []int
      arrint    |-> T("Array", "int", "", <<>>, {}),                 \* [3]int
      seqint    |-> T("Seq", "int", "", <<>>, {}),                   \* iter.Seq[int]
      seq2int   |-> T("Seq2", "int", "int", <<>>, {}),               \* iter.Seq2[int, int]
      \* type withSet struct { S []int `datahash:"set"` }
      withSet   |-> T("Struct", "", "", << SF(<<83>>, "slint", "set") >>, {}),
      \* type setAndList struct { A []int `datahash:"set"`; B []int }
      setAndList |-> T("Struct", "", "",
                       << SF(<<65>>, "slint", "set"), SF(<<66>>, "slint", "") >>, {}),
      \* type tagB struct { A int; B int `datahash:"ignorezero"` }
      tagB      |-> T("Struct", "", "",
                      << SF(<<65>>, "int", ""), SF(<<66>>, "int", "ignorezero") >>, {}),
      \* type plainB struct { A int; B int }
      plainB    |-> T("Struct", "", "",
                      << SF(<<65>>, "int", ""), SF(<<66>>, "int", "") >>, {}),
      \* type onlyA struct { A int }
      onlyA     |-> T("Struct", "", "", << SF(<<65>>, "int", "") >>, {}),
      \* struct { A int; B int; C int } and the same without A, without B
      abc       |-> T("Struct", "", "",
                      << SF(<<65>>, "int", ""), SF(<<66>>, "int", ""),
                         SF(<<67>>, "int", "") >>, {}),
      bc        |-> T("Struct", "", "",
                      << SF(<<66>>, "int", ""), SF(<<67>>, "int", "") >>, {}),
      ac        |-> T("Struct", "", "",
                      << SF(<<65>>, "int", ""), SF(<<67>>, "int", "") >>, {}),
      \* struct { A int `datahash:"bogus"` }
      badtag    |-> T("Struct", "", "", << SF(<<65>>, "int", "bogus") >>, {}),
      \* type binaryMarshaler struct { N int }, with a MarshalBinary method
      binaryMarshaler |-> T("Struct", "", "", << SF(<<78>>, "int", "") >>,
                            {"BinaryMarshaler"}),
      \* type textMarshaler struct { V string }, with a MarshalText method
      textMarshaler |-> T("Struct", "", "", << SF(<<86>>, "string", "") >>,
                          {"TextMarshaler"}),
      \* type jsonMarshaler struct { Val string }, with a MarshalJSON method
      jsonMarshaler |-> T("Struct", "", "", << SF(<<86, 97, 108>>, "string", "") >>,
                          {"JSONMarshaler"}),
      \* type stringerType struct { V int }, with a String method
      stringerType |-> T("Struct", "", "", << SF(<<86>>, "int", "") >>, {"Stringer"}),
      \* struct { A int; b int }
      unexp     |-> T("Struct", "", "",
                      << SF(<<65>>, "int", ""), SF(<<98>>, "int", "") >>, {}) ]

Types == DOMAIN TypeInfo

Kind(t) == TypeInfo[t].kind

\* the kinds one case of makeHashFunc's switch lists together
IntKinds == {"Int", "Int8", "Int16", "Int32", "Int64"}
UintKinds == {"Uint", "Uint8", "Uint16", "Uint32", "Uint64"}
FloatKinds == {"Float", "Float32", "Float64"}
ComplexKinds == {"Complex", "Complex64", "Complex128"}
Elem(t) == TypeInfo[t].elem
Key(t) == TypeInfo[t].key
NumField(t) == Len(TypeInfo[t].fields)
Field(t, i) == TypeInfo[t].fields[i]
\* reflect.StructField.IsExported: the name starts with an upper-case letter
IsExported(sf) == sf.name[1] \in 65..90
Implements(t, iface) == iface \in TypeInfo[t].impl
CanSeq2(t) == Kind(t) = "Seq2"
CanSeq(t) == Kind(t) = "Seq"

(***************************************************************************)
(* reflect.Value: a value carries its type; pointers carry an address into *)
(* Heap (0 is nil); an interface value carries its dynamic value.  ro says  *)
(* that the value was reached through an unexported struct field.  A      *)
(* signed integer is the number n; an unsigned integer is the numeral s,   *)
(* its base-256 digits from the most significant one; a float is the       *)
(* number n * 2^exp; a complex number is its two parts.                    *)
(***************************************************************************)
Val(t, n, s, addr, elems, keys, isnil) ==
    [t |-> t, n |-> n, s |-> s, addr |-> addr, elems |-> elems, keys |-> keys,
     isnil |-> isnil, ro |-> FALSE, exp |-> 0]

Invalid == Val("", 0, <<>>, 0, <<>>, <<>>, TRUE)          \* reflect.Value{}
IntV(n) == Val("int", n, <<>>, 0, <<>>, <<>>, FALSE)
StrV(s) == Val("string", 0, s, 0, <<>>, <<>>, FALSE)
IntOf(t, n) == Val(t, n, <<>>, 0, <<>>, <<>>, FALSE)
UintOf(t, digits) == Val(t, 0, digits, 0, <<>>, <<>>, FALSE)
FloatOf(t, m, e) == [Val(t, m, <<>>, 0, <<>>, <<>>, FALSE) EXCEPT !.exp = e]
ComplexOf(t, re, im) == Val(t, 0, <<>>, 0, <<re, im>>, <<>>, FALSE)
BoolV(b) == Val("bool", IF b THEN 1 ELSE 0, <<>>, 0, <<>>, <<>>, FALSE)
FuncV == Val("func", 0, <<>>, 0, <<>>, <<>>, FALSE)       \* a non-nil func()
PtrV(t, a) == Val(t, 0, <<>>, a, <<>>, <<>>, a = 0)
SliceV(t, elems) == Val(t, 0, <<>>, 0, elems, <<>>, FALSE)
MapV(t, keys, elems) == Val(t, 0, <<>>, 0, elems, keys, FALSE)
StructV(t, fields) == Val(t, 0, <<>>, 0, fields, <<>>, FALSE)
\* an iterator function, by the values, or the pairs, it yields
SeqV(t, elems) == Val(t, 0, <<>>, 0, elems, <<>>, FALSE)
Seq2V(t, keys, elems) == Val(t, 0, <<>>, 0, elems, keys, FALSE)
AnyV(dyn) == Val("any", 0, <<>>, 0, <<dyn>>, <<>>, FALSE) \* an interface holding dyn
AnyNil == Val("any", 0, <<>>, 0, <<>>, <<>>, TRUE)

IsValid(v) == v.t /= ""
VKind(v) == Kind(v.t)

RECURSIVE IsZero(_)
\* reflect.Value.IsZero
IsZero(v) ==
    CASE VKind(v) \in IntKinds \union FloatKinds \union {"Bool"} -> v.n = 0
      [] VKind(v) \in UintKinds -> \A i \in 1..Len(v.s) : v.s[i] = 0
      [] VKind(v) = "String" -> v.s = <<>>
      [] VKind(v) \in ComplexKinds \union {"Struct", "Array"} -> \A i \in 1..Len(v.elems) : IsZero(v.elems[i])
      [] OTHER -> v.isnil

IsNil(v) == v.isnil

\* a value obtained from value inherits its read-only flag
Inherit(value, x) == [x EXCEPT !.ro = value.ro]

\* value.Elem() of an interface value
IfaceElem(v) == IF v.isnil THEN Invalid ELSE Inherit(v, v.elems[1])

\* value.Index(i), and the i-th value that value.MapRange() yields
Index(v, i) == Inherit(v, v.elems[i])

\* the i-th key that value.MapRange() yields
MapKey(v, i) == Inherit(v, v.keys[i])

\* value.Field(i)
FieldOf(v, i) ==
    IF v.ro \/ ~IsExported(Field(v.t, i)) THEN [v.elems[i] EXCEPT !.ro = TRUE]
    ELSE v.elems[i]

\* value.CanInterface()
CanInterface(v) == ~v.ro

isZero(value) ==
    LET check == IF IsValid(value) /\ VKind(value) = "Interface" /\ ~IsNil(value)
                 THEN IfaceElem(value) ELSE value
    IN IsZero(check)

RECURSIVE Zero(_)
\* reflect.Zero(t)
Zero(t) ==
    CASE Kind(t) \in IntKinds \union UintKinds \union FloatKinds \union {"Bool", "String"} ->
           Val(t, 0, <<>>, 0, <<>>, <<>>, FALSE)
      [] Kind(t) = "Struct" ->
           Val(t, 0, <<>>, 0, [i \in 1..NumField(t) |-> Zero(Field(t, i).type)], <<>>, FALSE)
      [] OTHER -> Val(t, 0, <<>>, 0, <<>>, <<>>, TRUE)

(***************************************************************************)
(* The object graph the inputs live in: address -> the value stored there. *)
(***************************************************************************)
Heap ==
    << IntV(7),                                             \* 1: p
       IntV(7),                                             \* 2: q, *p == *q
       StructV("node", <<IntV(1), PtrV("pnode", 4)>>),      \* 3: a, a.Next = b
       StructV("node", <<IntV(2), PtrV("pnode", 3)>>),      \* 4: b, b.Next = a
       StructV("node", <<IntV(1), PtrV("pnode", 6)>>),      \* 5: a second cycle, equal values
       StructV("node", <<IntV(2), PtrV("pnode", 5)>>),      \* 6
       StructV("node", <<IntV(1), PtrV("pnode", 0)>>),      \* 7: &node{Value: 1}
       \* 8: m := map[string]any{}; p := &m; m["self"] = p
       MapV("mapstrany", <<StrV(<<115, 101, 108, 102>>)>>, <<AnyV(PtrV("pmapstrany", 8))>>),
       \* 9: s := []any{nil}; p := &s; s[0] = p
       SliceV("slany", <<AnyV(PtrV("pslany", 9))>>),
       IntV(0),                                             \* 10: new(int)
       StructV("node", <<IntV(1), PtrV("pnode", 12)>>),     \* 11: the cycle a -> b -> a
       StructV("node", <<IntV(3), PtrV("pnode", 11)>>),     \* 12: with b.Value = 3
       StructV("node", <<IntV(1), PtrV("pnode", 14)>>),     \* 13: the list a -> b
       StructV("node", <<IntV(2), PtrV("pnode", 0)>>),      \* 14
       StructV("node", <<IntV(1), PtrV("pnode", 16)>>),     \* 15: the list a -> b
       StructV("node", <<IntV(3), PtrV("pnode", 0)>>) >>    \* 16: with b.Value = 3

Deref(addr) == Heap[addr]

\* value.Elem() of a non-nil pointer
PtrElem(v) == Inherit(v, Deref(v.addr))

\* the values given to Hash, by name
InputValue ==
    [ nil     |-> Invalid,                                          \* Hash(nil)
      i5      |-> IntV(5),
      pp      |-> SliceV("slpint", <<PtrV("pint", 1), PtrV("pint", 1)>>),  \* []*int{p, p}
      pq      |-> SliceV("slpint", <<PtrV("pint", 1), PtrV("pint", 2)>>),  \* []*int{p, q}
      cyc1    |-> PtrV("pnode", 3),                                 \* makeCyclic()
      cyc2    |-> PtrV("pnode", 5),                                 \* makeCyclic() again
      nv      |-> StructV("node", <<IntV(1), PtrV("pnode", 0)>>),   \* node{Value: 1}
      pn1     |-> PtrV("pnode", 7),                                 \* &node{Value: 1}
      selfmap |-> PtrV("pmapstrany", 8),
      selfsl  |-> PtrV("pslany", 9),
      fn      |-> FuncV,                                            \* func() {}
      sfn     |-> StructV("sfunc", <<IntV(1), FuncV>>),
      anyfn   |-> SliceV("slany", <<AnyV(IntV(1)), AnyV(FuncV)>>),  \* []any{1, func() {}}
      msi     |-> MapV("mapstrint", <<StrV(<<97>>)>>, <<IntV(1)>>), \* map[string]int{"a": 1}
      ex1     |-> StructV("excl", <<StrV(<<104>>), IntV(1)>>),      \* {Secret: "h", X: 1}
      ex2     |-> StructV("excl", <<StrV(<<119>>), IntV(1)>>),      \* {Secret: "w", X: 1}
      ux1     |-> StructV("unexp", <<IntV(1), IntV(1)>>),           \* {A: 1, b: 1}
      ux2     |-> StructV("unexp", <<IntV(1), IntV(2)>>),           \* {A: 1, b: 2}
      \* map[string]any{"a": node{Value: 1}, "b": &node{Value: 1}}, as the runtime
      \* enumerates it: "a" first, or "b" first
      mixab   |-> MapV("mapstrany", <<StrV(<<97>>), StrV(<<98>>)>>,
                       <<AnyV(StructV("node", <<IntV(1), PtrV("pnode", 0)>>)),
                         AnyV(PtrV("pnode", 7))>>),
      mixba   |-> MapV("mapstrany", <<StrV(<<98>>), StrV(<<97>>)>>,
                       <<AnyV(PtrV("pnode", 7)),
                         AnyV(StructV("node", <<IntV(1), PtrV("pnode", 0)>>))>>),
      nilpint |-> PtrV("pint", 0),                                  \* (*int)(nil)
      pz      |-> PtrV("pint", 10),                                 \* new(int)
      i0      |-> IntV(0),
      bt      |-> StructV("badtag", <<IntV(1)>>),                   \* {A: 1}
      cycb3   |-> PtrV("pnode", 11),                                \* the cycle, b.Value = 3
      listb2  |-> PtrV("pnode", 13),                                \* the list, b.Value = 2
      listb3  |-> PtrV("pnode", 15),                                \* the list, b.Value = 3
      sa3b    |-> SliceV("slstring", <<StrV(<<97, 3, 98>>)>>),      \* []string{"a\x03b"}
      sab     |-> SliceV("slstring", <<StrV(<<97>>), StrV(<<98>>)>>), \* []string{"a", "b"}
      tb      |-> StructV("tagB", <<IntV(1), IntV(0)>>),            \* tagB{A: 1, B: 0}
      pb      |-> StructV("plainB", <<IntV(1), IntV(0)>>),          \* plainB{A: 1, B: 0}
      oa      |-> StructV("onlyA", <<IntV(1)>>),                    \* onlyA{A: 1}
      z1      |-> StructV("abc", <<IntV(0), IntV(2), IntV(3)>>),    \* {A: 0, B: 2, C: 3}
      bc23    |-> StructV("bc", <<IntV(2), IntV(3)>>),              \* {B: 2, C: 3}
      z2      |-> StructV("abc", <<IntV(1), IntV(0), IntV(3)>>),    \* {A: 1, B: 0, C: 3}
      ac13    |-> StructV("ac", <<IntV(1), IntV(3)>>),              \* {A: 1, C: 3}
      z3      |-> StructV("abc", <<IntV(1), IntV(2), IntV(0)>>),    \* {A: 1, B: 2, C: 0}
      ab12    |-> StructV("plainB", <<IntV(1), IntV(2)>>),          \* {A: 1, B: 2}
      bm1     |-> StructV("binaryMarshaler", <<IntV(1)>>),          \* binaryMarshaler{N: 1}
      bm0     |-> StructV("binaryMarshaler", <<IntV(0)>>),          \* binaryMarshaler{}
      tma     |-> StructV("textMarshaler", <<StrV(<<97>>)>>),       \* textMarshaler{V: "a"}
      jma     |-> StructV("jsonMarshaler", <<StrV(<<97>>)>>),       \* jsonMarshaler{Val: "a"}
      st12    |-> StructV("stringerType", <<IntV(12)>>),            \* stringerType{V: 12}
      \* []any{p, map[string]any{"k": p}}
      pinmap  |-> SliceV("slany", <<AnyV(PtrV("pint", 1)),
                                    AnyV(MapV("mapstrany", <<StrV(<<107>>)>>,
                                              <<AnyV(PtrV("pint", 1))>>))>>),
      s123    |-> SliceV("slint", <<IntV(1), IntV(2), IntV(3)>>),   \* []int{1, 2, 3}
      \* map[string]any{"k": map[string]int{"a": 1}}
      mnest   |-> MapV("mapstrany", <<StrV(<<107>>)>>,
                       <<AnyV(MapV("mapstrint", <<StrV(<<97>>)>>, <<IntV(1)>>))>>),
      s321    |-> SliceV("slint", <<IntV(3), IntV(2), IntV(1)>>),   \* []int{3, 2, 1}
      ws12    |-> StructV("withSet", <<SliceV("slint", <<IntV(1), IntV(2)>>)>>),
      \* setAndList{A: []int{1}, B: []int{1, 2}} and the same with B: []int{2, 1}
      sl12    |-> StructV("setAndList", <<SliceV("slint", <<IntV(1)>>),
                                          SliceV("slint", <<IntV(1), IntV(2)>>)>>),
      sl21    |-> StructV("setAndList", <<SliceV("slint", <<IntV(1)>>),
                                          SliceV("slint", <<IntV(2), IntV(1)>>)>>),
      s012    |-> SliceV("slint", <<IntV(0), IntV(1), IntV(2)>>),   \* []int{0, 1, 2}
      s120    |-> SliceV("slint", <<IntV(1), IntV(2), IntV(0)>>),   \* []int{1, 2, 0}
      a102    |-> SliceV("arrint", <<IntV(1), IntV(0), IntV(2)>>),  \* [3]int{1, 0, 2}
      q012    |-> SeqV("seqint", <<IntV(0), IntV(1), IntV(2)>>),    \* yields 0, 1, 2
      q120    |-> SeqV("seqint", <<IntV(1), IntV(2), IntV(0)>>),    \* yields 1, 2, 0
      \* yields (1, 0), (2, 5), (3, 6), (4, 0)
      kv0560  |-> Seq2V("seq2int", <<IntV(1), IntV(2), IntV(3), IntV(4)>>,
                        <<IntV(0), IntV(5), IntV(6), IntV(0)>>),
      sempty  |-> SliceV("slint", <<>>),                            \* []int{}
      s11     |-> SliceV("slint", <<IntV(1), IntV(1)>>),            \* []int{1, 1}
      mempty  |-> MapV("mapstrint", <<>>, <<>>),                    \* map[string]int{}
      i8m1    |-> IntOf("int8", 0 - 1),                             \* int8(-1)
      i64m1   |-> IntOf("int64", 0 - 1),                            \* int64(-1)
      u64max  |-> UintOf("uint64", <<255, 255, 255, 255, 255, 255, 255, 255>>),
      i258    |-> IntOf("int16", 258),                              \* int16(0x0102)
      u8x     |-> UintOf("uint8", <<200>>),                         \* uint8(200)
      f32     |-> FloatOf("float32", 3, 0 - 1),                     \* float32(1.5)
      f64     |-> FloatOf("float64", 3, 0 - 1),                     \* float64(1.5)
      fm2     |-> FloatOf("float64", 0 - 1, 1),                     \* float64(-2)
      c128    |-> ComplexOf("complex128", FloatOf("float64", 3, 0 - 1),
                            FloatOf("float64", 0 - 1, 1)),          \* 1.5 - 2i
      btrue   |-> BoolV(TRUE),
      bfalse  |-> BoolV(FALSE),
      nilpch  |-> PtrV("pcustomHash", 0),                           \* (*customHash)(nil)
      nilpbm  |-> PtrV("pbinaryMarshaler", 0),                      \* (*binaryMarshaler)(nil)
      ch0     |-> StructV("customHash", <<StrV(<<>>)>>),            \* customHash{}
      chabc   |-> StructV("customHash", <<StrV(<<97, 98, 99>>)>>) ] \* customHash{"abc"}

Inputs == DOMAIN InputValue

(***************************************************************************)
(* hashFunc: the closures makeHashFunc builds, as data.  k names the       *)
(* function the closure was made by, t and sub are what it captured.       *)
(***************************************************************************)
HF(k, t, sub, sfs) == [k |-> k, t |-> t, sub |-> sub, sfs |-> sfs]

NoHF == HF("none", "", <<>>, <<>>)     \* hashFuncMap.Load(t) found nothing
noop == HF("noop", "", <<>>, <<>>)     \* func(reflect.Value, *container) error { return nil }

structField(name, hf, idx) == [name |-> name, hf |-> hf, idx |-> idx]

DefaultOptions ==
    [UnorderedStruct |-> FALSE, UnorderedArray |-> FALSE, UnorderedSlice |-> FALSE,
     UnorderedSeq |-> FALSE, UnorderedSeq2 |-> FALSE, Text |-> FALSE, JSON |-> FALSE,
     String |-> FALSE, ZeroNil |-> FALSE, IgnoreZero |-> FALSE]

(***************************************************************************)
(* makeHashFunc, one step at a time.  A machine is the goroutine's stack   *)
(* of makeHashFunc activations: each frame holds its type t, where it is   *)
(* (pc), the encoders its recursive calls have returned so far (subs) and  *)
(* the h.visited slice it read for its append (snap).                      *)
(***************************************************************************)
Frame(t) == [t |-> t, pc |-> "load", subs |-> <<>>, snap |-> <<>>]

Machine(t) == [stack |-> <<Frame(t)>>, done |-> FALSE, hf |-> NoHF, err |-> "nil"]

\* the first switch of makeHashFunc: the delegate the type is given, if any
Delegate(t) ==
    CASE Implements(t, "HashWriter") -> "hashInterfaceHashWriter"
      [] Implements(t, "BinaryMarshaler") -> "hashInterfaceBinary"
      [] opts.Text /\ Implements(t, "TextMarshaler") -> "hashInterfaceText"
      [] opts.JSON /\ Implements(t, "JSONMarshaler") -> "hashInterfaceJSON"
      [] opts.String /\ Implements(t, "Stringer") -> "hashInterfaceStringer"
      [] OTHER -> ""

\* KeptFields, had makeHashFunc not looked at the tag
KeptFieldsAll(t) == [i \in 1..NumField(t) |-> i]

\* the struct fields makeHashFunc keeps: those not tagged datahash:"-"
KeptFields(t) == SelectSeq([i \in 1..NumField(t) |-> i], LAMBDA i : Field(t, i).tag /= "-")

\* the types makeHashFunc(t) calls itself on, in order
Children(t) ==
    IF Delegate(t) /= "" THEN <<>>
    ELSE CASE Kind(t) \in {"Pointer", "Array"} -> <<Elem(t)>>
           [] Kind(t) = "Slice" -> IF Kind(Elem(t)) = "Uint8" THEN <<>> ELSE <<Elem(t)>>
           [] Kind(t) = "Map" -> <<Key(t), Elem(t)>>
           [] Kind(t) = "Struct" ->
                [j \in 1..Len(KeptFields(t)) |-> Field(t, KeptFields(t)[j]).type]
           [] OTHER -> <<>>

\* no case of makeHashFunc applies: "datahash: unsupported type"
Unsupported(t) ==
    /\ Delegate(t) = ""
    /\ Kind(t) \notin {"Interface", "Pointer", "String", "Bool", "Array", "Slice", "Map",
                       "Struct"} \union IntKinds \union UintKinds \union FloatKinds
                                 \union ComplexKinds
    /\ ~CanSeq2(t)
    /\ ~CanSeq(t)

\* the closure makeHashFunc(t) hands to checkout, given the encoders of Children(t)
Build(t, subs) ==
    IF Delegate(t) /= "" THEN HF(Delegate(t), "", <<>>, <<>>)
    ELSE CASE Kind(t) = "Interface" -> HF("hashInterface", "", <<>>, <<>>)
           [] Kind(t) = "Pointer" -> HF("hashPointer", t, subs, <<>>)
           [] Kind(t) = "String" -> HF("string", "", <<>>, <<>>)
           [] Kind(t) \in IntKinds -> HF("int", "", <<>>, <<>>)
           [] Kind(t) \in UintKinds -> HF("uint", "", <<>>, <<>>)
           [] Kind(t) \in FloatKinds -> HF("float", "", <<>>, <<>>)
           [] Kind(t) \in ComplexKinds -> HF("complex", "", <<>>, <<>>)
           [] Kind(t) = "Bool" -> HF("bool", "", <<>>, <<>>)
           [] Kind(t) = "Array" ->
                IF opts.UnorderedArray THEN HF("hashUnorderedSliceArray", "", subs, <<>>)
                ELSE HF("hashSliceArray", "", subs, <<>>)
           [] Kind(t) = "Slice" ->
                IF Kind(Elem(t)) = "Uint8" THEN HF("hashByteSlice", "", <<>>, <<>>)
                ELSE IF opts.UnorderedSlice THEN HF("hashUnorderedSliceArray", "", subs, <<>>)
                ELSE HF("hashSliceArray", "", subs, <<>>)
           [] Kind(t) = "Map" -> HF("hashMap", "", subs, <<>>)
           [] Kind(t) = "Struct" ->
                HF("hashStruct", "", <<>>,
                   [j \in 1..Len(subs) |->
                       structField(Field(t, KeptFields(t)[j]).name, subs[j], KeptFields(t)[j])])
           [] CanSeq2(t) -> HF("hashSeq2", "", <<>>, <<>>)
           [] OTHER -> HF("hashSeq", "", <<>>, <<>>)

\* h.hashFuncMap.Store(t, hf)
checkout(cache, t, hf) == [cache EXCEPT ![t] = hf]

\* the top activation returns (hf, nil) to its caller
mhfReturn(m, hf) ==
    LET rest == SubSeq(m.stack, 1, Len(m.stack) - 1) IN
    IF rest = <<>> THEN [m EXCEPT !.stack = <<>>, !.done = TRUE, !.hf = hf]
    ELSE [m EXCEPT !.stack = [rest EXCEPT ![Len(rest)].subs = Append(@, hf)]]

\* the top activation returns (nil, err); every caller returns it on
mhfFail(m, e) == [m EXCEPT !.stack = <<>>, !.done = TRUE, !.err = e]

mhfGoto(m, pc) == [m EXCEPT !.stack[Len(m.stack)].pc = pc]

MS(m, cache, hv) == [m |-> m, cache |-> cache, hv |-> hv]

\* one step of the top activation of makeHashFunc
makeHashFuncStep(m, cache, hv) ==
    LET f == m.stack[Len(m.stack)]
        t == f.t
    IN CASE f.pc = "load" ->          \* v, ok := h.hashFuncMap.Load(t)
              IF cache[t] /= NoHF THEN MS(mhfReturn(m, cache[t]), cache, hv)
              ELSE MS(mhfGoto(m, "contains"), cache, hv)
         [] f.pc = "contains" ->      \* slices.Contains(h.visited, t)
              IF Contains(hv, t) THEN MS(mhfReturn(m, noop), cache, hv)
              ELSE MS(mhfGoto(m, "append"), cache, hv)
         [] f.pc = "append" ->        \* append(h.visited, t) reads the slice
              MS([m EXCEPT !.stack[Len(m.stack)].pc = "assign",
                           !.stack[Len(m.stack)].snap = hv], cache, hv)
         [] f.pc = "assign" ->        \* h.visited = the appended slice
              MS(mhfGoto(m, "switch"), cache, Append(f.snap, t))
         [] OTHER ->                  \* the two switches, and checkout
              IF Unsupported(t) THEN MS(mhfFail(m, "unsupported"), cache, hv)
              ELSE IF Len(f.subs) < Len(Children(t))
              THEN MS([m EXCEPT !.stack = Append(@, Frame(Children(t)[Len(f.subs) + 1]))],
                      cache, hv)
              ELSE MS(mhfReturn(m, Build(t, f.subs)),
                      checkout(cache, t, Build(t, f.subs)), hv)

RECURSIVE mhfSteps(_, _)
\* the next n steps of one goroutine's makeHashFunc, or as many as it has left
mhfSteps(ms, n) ==
    IF ms.m.done \/ n = 0 THEN ms
    ELSE IF n = 1 THEN makeHashFuncStep(ms.m, ms.cache, ms.hv)
    ELSE mhfSteps(mhfSteps(ms, n \div 2), n - (n \div 2))

RECURSIVE mhfRun(_, _)
\* the steps of one goroutine's makeHashFunc up to its return, n of them first
mhfRun(ms, n) == IF ms.m.done THEN ms ELSE mhfRun(mhfSteps(ms, n), 2 * n)

\* makeHashFunc(t) run to its return by one goroutine: (hf, err) and what it left
\* in h.hashFuncMap and h.visited
makeHashFunc(t, cache, hv) == mhfRun(MS(Machine(t), cache, hv), 1)

(***************************************************************************)
(* The containers and the pool.  The state st threaded through an encoder  *)
(* run holds the containers by identity (cont), the idle ones (pool), the  *)
(* Hasher's cache and visited types, the accumulator writes made so far    *)
(* (nw; the write numbered failAt is rejected), the pool traffic (log) and *)
(* whether the goroutine stack overflowed (crash).                         *)
(***************************************************************************)
Ret(st, err) == [st |-> st, err |-> err]

\* containerPool.New
NewContainer == [hash |-> <<>>, visited |-> <<>>]

\* a mutant of poolGet: a pool that hands out a container and keeps it
poolGetShared(st) ==
    IF st.pool = <<>>
    THEN [st |-> [st EXCEPT !.cont = Append(@, NewContainer),
                            !.log = Append(@, <<"get", Len(st.cont) + 1>>)],
          c |-> Len(st.cont) + 1]
    ELSE [st |-> [st EXCEPT !.log = Append(@, <<"get", st.pool[Len(st.pool)]>>)],
          c |-> st.pool[Len(st.pool)]]

\* h.containerPool.Get().(*container)
poolGet(st) ==
    IF st.pool = <<>>
    THEN [st |-> [st EXCEPT !.cont = Append(@, NewContainer),
                            !.log = Append(@, <<"get", Len(st.cont) + 1>>)],
          c |-> Len(st.cont) + 1]
    ELSE [st |-> [st EXCEPT !.pool = SubSeq(@, 1, Len(@) - 1),
                            !.log = Append(@, <<"get", st.pool[Len(st.pool)]>>)],
          c |-> st.pool[Len(st.pool)]]

\* h.containerPool.Put(c)
poolPut(st, c) == [st EXCEPT !.pool = Append(@, c), !.log = Append(@, <<"put", c>>)]

\* Reset, had it reset the accumulator and kept the visited addresses
ResetHashOnly(st, c) == [st EXCEPT !.cont[c].hash = <<>>]

\* c.Reset()
Reset(st, c) == [st EXCEPT !.cont[c] = [hash |-> <<>>, visited |-> <<>>]]

\* a note in the log: an encoder is about to be called with container c for the
\* value given to Hash, or for an element or a pair of a fold, and c.visited is
\* what the note holds
begin(st, c) == [st EXCEPT !.log = Append(@, <<"enc", c, st.cont[c].visited>>)]

\* c.write(b): the accumulator takes the bytes or rejects the write
write(st, c, b) ==
    IF st.nw + 1 = st.failAt THEN Ret([st EXCEPT !.nw = @ + 1], "write")
    ELSE Ret([st EXCEPT !.nw = @ + 1, !.cont[c].hash = @ \o b], "nil")

writeUint64(st, c, v) == write(st, c, PutUint64(v))

twoErr(err1, err2) == IF err1 /= "nil" THEN err1 ELSE err2

\* value.Uint() as a uint64, by its eight bytes from the least significant one
Uint(value) ==
    [i \in 1..8 |-> IF i <= Len(value.s) THEN value.s[Len(value.s) + 1 - i] ELSE 0]

\* c.writeUint64(v) of a v too wide for the model's integers
writeUint64Wide(st, c, w) == write(st, c, w)

\* the position of the leading binary digit of m >= 1
RECURSIVE Log2(_)
Log2(m) == IF m < 2 THEN 0 ELSE 1 + Log2(m \div 2)

MaxFractionBits == 4

\* math.Float64bits(v) of v = m * 2^e, by its eight bytes from the least
\* significant one: sign bit, 11 bits of biased exponent, 52 bits of fraction
Float64bits(m, e) ==
    IF m = 0 THEN [i \in 1..8 |-> 0]
    ELSE LET sign == IF m < 0 THEN 1 ELSE 0
             a == IF m < 0 THEN 0 - m ELSE m
             k == Log2(a)
             biased == k + e + 1023
             frac == (a - Pow2(k)) * Pow2(MaxFractionBits - k)
         IN << 0, 0, 0, 0, 0, 0, (biased % 16) * 16 + frac, sign * 128 + biased \div 16 >>

\* value.Float(): a float32 widens to the float64 of the same number
Float(value) == Float64bits(value.n, value.exp)

writeFloat64(st, c, value) == writeUint64Wide(st, c, Float(value))

\* the closure of the Complex64, Complex128 case: both parts are written
\* before twoErr looks at either error
hashComplex(value, c, st) ==
    LET r1 == writeFloat64(st, c, value.elems[1])
        r2 == writeFloat64(r1.st, c, value.elems[2])
    IN Ret(r2.st, twoErr(r1.err, r2.err))


threeErr(err1, err2, err3) ==
    IF err1 /= "nil" THEN err1 ELSE IF err2 /= "nil" THEN err2 ELSE err3

\* foldEnd, had it written the XOR of the sub-digests also when it is 0
foldEndAlways(st, c, result) ==
    LET a == writeUint64(st, c, result)
        b == write(a.st, c, endSet)
    IN Ret(b.st, twoErr(a.err, b.err))

\* the end of every fold: the XOR of the sub-digests, if not 0, and endSet
foldEnd(st, c, result) ==
    IF result = 0 THEN write(st, c, endSet)
    ELSE LET a == writeUint64(st, c, result)
             b == write(a.st, c, endSet)
         IN Ret(b.st, twoErr(a.err, b.err))

Fold(st, err, result) == [st |-> st, err |-> err, result |-> result]

(***************************************************************************)
(* The encoders.  Run(hf, value, c, st, d) is the call hf(value, c) made   *)
(* at stack depth d.                                                       *)
(***************************************************************************)
RECURSIVE Run(_, _, _, _, _)

\* the receiver of a method with a value receiver that is called on value: of a
\* pointer, what it points to
Receiver(value) == IF VKind(value) = "Pointer" THEN Deref(value.addr) ELSE value

\* a method with a value receiver is called on a nil pointer
NilReceiver(value) == VKind(value) = "Pointer" /\ IsNil(value)

\* the run-time panic "value method called using nil pointer": nothing recovers
\* it, the call never returns
panic(st) == Ret([st EXCEPT !.crash = TRUE], "panic")

\* what customHash.WriteHash feeds to the accumulator: "custom:" + c.Value
customHashBytes(value) == <<99, 117, 115, 116, 111, 109, 58>> \o Receiver(value).elems[1].s

\* i.WriteHash(c.hash) of the HashWriter the value holds
WriteHash(value, c, st) ==
    IF NilReceiver(value) THEN panic(st) ELSE write(st, c, customHashBytes(value))

hashInterfaceHashWriter(hf, value, c, st, d) ==
    IF ~IsValid(value) \/ (opts.IgnoreZero /\ IsZero(value)) THEN Ret(st, "nil")
    ELSE IF ~CanInterface(value) THEN Ret(st, "unexported")
    ELSE IF VKind(value) = "Interface" /\ IsNil(value) THEN Ret(st, "nil")
    ELSE WriteHash(value, c, st)

\* the bytes of binaryMarshaler.MarshalBinary: []byte{byte(b.N)}
MarshalBinary(value) == <<Receiver(value).elems[1].n % 256>>

\* the bytes of textMarshaler.MarshalText: "TM:" + t.V
MarshalText(value) == <<84, 77, 58>> \o Receiver(value).elems[1].s

\* the bytes of jsonMarshaler.MarshalJSON: `"` + j.Val + `"`
MarshalJSON(value) == <<34>> \o Receiver(value).elems[1].s \o <<34>>

RECURSIVE Itoa(_)
\* %d of a non-negative int
Itoa(n) == IF n < 10 THEN <<48 + n>> ELSE Itoa(n \div 10) \o <<48 + (n % 10)>>

\* the bytes of stringerType.String: fmt.Sprintf("S:%d", s.V)
String(value) == <<83, 58>> \o Itoa(Receiver(value).elems[1].n)

\* what the marshal method of a delegate encoder returns for the value
Marshal(k, value) ==
    CASE k = "hashInterfaceBinary" -> MarshalBinary(value)
      [] k = "hashInterfaceText" -> MarshalText(value)
      [] k = "hashInterfaceJSON" -> MarshalJSON(value)
      [] OTHER -> String(value)

\* hashInterfaceBinary, hashInterfaceText, hashInterfaceJSON, hashInterfaceStringer
hashInterfaceMarshal(hf, value, c, st, d) ==
    IF ~IsValid(value) \/ (opts.IgnoreZero /\ IsZero(value)) THEN Ret(st, "nil")
    ELSE IF ~CanInterface(value) THEN Ret(st, "unexported")
    ELSE IF VKind(value) = "Interface" /\ IsNil(value) THEN Ret(st, "nil")
    ELSE IF NilReceiver(value) THEN panic(st)
    ELSE write(st, c, Marshal(hf.k, value))

hashByteSlice(hf, value, c, st, d) ==
    IF ~IsValid(value) \/ (opts.IgnoreZero /\ IsZero(value)) THEN Ret(st, "nil")
    ELSE write(st, c, value.s)

\* hashInterface from its makeHashFunc call on: compile the dynamic type, run its encoder
hashDynamic(value, c, st, d) ==
    LET mk == makeHashFunc(value.t, st.cache, st.hv)
        s1 == [st EXCEPT !.cache = mk.cache, !.hv = mk.hv]
    IN IF mk.m.err /= "nil" THEN Ret(s1, mk.m.err)
       ELSE Run(mk.m.hf, value, c, s1, d + 1)

hashInterface(hf, value, c, st, d) ==
    IF ~IsValid(value) \/ (opts.IgnoreZero /\ IsZero(value)) THEN Ret(st, "nil")
    ELSE IF VKind(value) /= "Interface" THEN hashDynamic(value, c, st, d)
    ELSE IF ~IsValid(IfaceElem(value)) THEN Ret(st, "nil")
    ELSE hashDynamic(IfaceElem(value), c, st, d)

RECURSIVE unorderedLoop(_, _, _, _, _, _, _)
\* the loop of hashUnorderedSliceArray from index i on
unorderedLoop(vhf, value, i, result, tmp, st, d) ==
    IF i > Len(value.elems) THEN Fold(st, "nil", result)
    ELSE LET s1 == Reset(st, tmp)
             v == Index(value, i)
         IN IF ~IsValid(v) \/ (opts.IgnoreZero /\ isZero(v))
            THEN unorderedLoop(vhf, value, i + 1, result, tmp, s1, d)
            ELSE LET r == Run(vhf, v, tmp, begin(s1, tmp), d + 1) IN
                 IF r.err /= "nil" THEN Fold(r.st, r.err, result)
                 ELSE unorderedLoop(vhf, value, i + 1,
                                    Xor(result, Sum64(r.st.cont[tmp].hash)), tmp, r.st, d)

hashUnorderedSliceArray(hf, value, c, st, d) ==
    IF ~IsValid(value) \/ (opts.IgnoreZero /\ IsZero(value)) THEN Ret(st, "nil")
    ELSE LET w == write(st, c, startSet) IN
         IF w.err /= "nil" THEN w
         ELSE LET g == poolGet(w.st)
                  l == unorderedLoop(hf.sub[1], value, 1, 0, g.c, g.st, d)
              IN IF l.err /= "nil" THEN Ret(poolPut(l.st, g.c), l.err)
                 ELSE foldEnd(poolPut(l.st, g.c), c, l.result)

RECURSIVE orderedLoopByIndex(_, _, _, _, _, _, _)
\* orderedLoop, had it written the comma before every element but the one at
\* index 0
orderedLoopByIndex(vhf, value, i, first, c, st, d) ==
    IF i > Len(value.elems) THEN Ret(st, "nil")
    ELSE LET v == Index(value, i) IN
         IF ~IsValid(v) \/ (opts.IgnoreZero /\ isZero(v))
         THEN orderedLoopByIndex(vhf, value, i + 1, first, c, st, d)
         ELSE LET w == IF i = 1 THEN Ret(st, "nil") ELSE write(st, c, comma) IN
              IF w.err /= "nil" THEN w
              ELSE LET r == Run(vhf, v, c, w.st, d + 1) IN
                   IF r.err /= "nil" THEN r
                   ELSE orderedLoopByIndex(vhf, value, i + 1, FALSE, c, r.st, d)

RECURSIVE orderedLoop(_, _, _, _, _, _, _)
\* the loop of hashSliceArray from index i on
orderedLoop(vhf, value, i, first, c, st, d) ==
    IF i > Len(value.elems) THEN Ret(st, "nil")
    ELSE LET v == Index(value, i) IN
         IF ~IsValid(v) \/ (opts.IgnoreZero /\ isZero(v))
         THEN orderedLoop(vhf, value, i + 1, first, c, st, d)
         ELSE LET w == IF first THEN Ret(st, "nil") ELSE write(st, c, comma) IN
              IF w.err /= "nil" THEN w
              ELSE LET r == Run(vhf, v, c, w.st, d + 1) IN
                   IF r.err /= "nil" THEN r
                   ELSE orderedLoop(vhf, value, i + 1, FALSE, c, r.st, d)

hashSliceArray(hf, value, c, st, d) ==
    IF ~IsValid(value) \/ (opts.IgnoreZero /\ IsZero(value)) THEN Ret(st, "nil")
    ELSE LET w == write(st, c, startList) IN
         IF w.err /= "nil" THEN w
         ELSE LET l == orderedLoop(hf.sub[1], value, 1, TRUE, c, w.st, d) IN
              IF l.err /= "nil" THEN l ELSE write(l.st, c, endList)

RECURSIVE mapLoop(_, _, _, _, _, _, _, _)
\* the loop of hashMap from the i-th pair of the iteration on
mapLoop(khf, vhf, value, i, result, tmp, st, d) ==
    IF i > Len(value.elems) THEN Fold(st, "nil", result)
    ELSE LET s1 == Reset(st, tmp)
             v == Index(value, i)
         IN IF ~IsValid(v) \/ (opts.IgnoreZero /\ IsZero(v))
            THEN mapLoop(khf, vhf, value, i + 1, result, tmp, s1, d)
            ELSE LET a == Run(khf, MapKey(value, i), tmp, begin(s1, tmp), d + 1)
                     b == write(a.st, tmp, colon)
                     e == Run(vhf, v, tmp, b.st, d + 1)
                 IN IF threeErr(a.err, b.err, e.err) /= "nil"
                    THEN Fold(e.st, threeErr(a.err, b.err, e.err), result)
                    ELSE mapLoop(khf, vhf, value, i + 1,
                                 Xor(result, Sum64(e.st.cont[tmp].hash)), tmp, e.st, d)

hashMap(hf, value, c, st, d) ==
    IF ~IsValid(value) THEN Ret(st, "nil")
    ELSE LET g == poolGet(st)
             w == write(g.st, c, startSet)
         IN IF w.err /= "nil" THEN w
            ELSE LET l == mapLoop(hf.sub[1], hf.sub[2], value, 1, 0, g.c, w.st, d) IN
                 IF l.err /= "nil" THEN Ret(poolPut(l.st, g.c), l.err)
                 ELSE foldEnd(poolPut(l.st, g.c), c, l.result)

RECURSIVE unorderedFields(_, _, _, _, _, _, _)
\* the loop of the unordered hashStruct from the j-th structField on
unorderedFields(sfs, value, j, result, tmp, st, d) ==
    IF j > Len(sfs) THEN Fold(st, "nil", result)
    ELSE LET fv == FieldOf(value, sfs[j].idx) IN
         IF ~IsValid(fv) \/ (opts.IgnoreZero /\ isZero(fv))
         THEN unorderedFields(sfs, value, j + 1, result, tmp, st, d)
         ELSE LET s1 == Reset(st, tmp)
                  a == write(begin(s1, tmp), tmp, sfs[j].name)
                  b == write(a.st, tmp, colon)
                  e == Run(sfs[j].hf, fv, tmp, b.st, d + 1)
              IN IF threeErr(a.err, b.err, e.err) /= "nil"
                 THEN Fold(e.st, threeErr(a.err, b.err, e.err), result)
                 ELSE unorderedFields(sfs, value, j + 1,
                                      Xor(result, Sum64(e.st.cont[tmp].hash)), tmp, e.st, d)

RECURSIVE orderedFieldsCommaFirst(_, _, _, _, _, _, _)
\* orderedFields, had it written the comma before it looked for a zero field
orderedFieldsCommaFirst(sfs, value, j, first, c, st, d) ==
    IF j > Len(sfs) THEN Ret(st, "nil")
    ELSE LET fv == FieldOf(value, sfs[j].idx)
             w == IF first THEN Ret(st, "nil") ELSE write(st, c, comma)
         IN IF w.err /= "nil" THEN w
            ELSE IF ~IsValid(fv) \/ (opts.IgnoreZero /\ isZero(fv))
            THEN orderedFieldsCommaFirst(sfs, value, j + 1, FALSE, c, w.st, d)
            ELSE LET a == write(w.st, c, sfs[j].name)
                     b == write(a.st, c, colon)
                     e == Run(sfs[j].hf, fv, c, b.st, d + 1)
                 IN IF threeErr(a.err, b.err, e.err) /= "nil"
                    THEN Ret(e.st, threeErr(a.err, b.err, e.err))
                    ELSE orderedFieldsCommaFirst(sfs, value, j + 1, FALSE, c, e.st, d)

RECURSIVE orderedFields(_, _, _, _, _, _, _)
\* the loop of the ordered hashStruct from the j-th structField on
orderedFields(sfs, value, j, first, c, st, d) ==
    IF j > Len(sfs) THEN Ret(st, "nil")
    ELSE LET fv == FieldOf(value, sfs[j].idx) IN
         IF ~IsValid(fv) \/ (opts.IgnoreZero /\ isZero(fv))
         THEN orderedFields(sfs, value, j + 1, first, c, st, d)
         ELSE LET w == IF first THEN Ret(st, "nil") ELSE write(st, c, comma) IN
              IF w.err /= "nil" THEN w
              ELSE LET a == write(w.st, c, sfs[j].name)
                       b == write(a.st, c, colon)
                       e == Run(sfs[j].hf, fv, c, b.st, d + 1)
                   IN IF threeErr(a.err, b.err, e.err) /= "nil"
                      THEN Ret(e.st, threeErr(a.err, b.err, e.err))
                      ELSE orderedFields(sfs, value, j + 1, FALSE, c, e.st, d)

hashStruct(hf, value, c, st, d) ==
    IF opts.UnorderedStruct
    THEN LET w == write(st, c, startSet) IN
         IF w.err /= "nil" THEN w
         ELSE LET g == poolGet(w.st)
                  l == unorderedFields(hf.sfs, value, 1, 0, g.c, g.st, d)
              IN IF l.err /= "nil" THEN Ret(poolPut(l.st, g.c), l.err)
                 ELSE foldEnd(poolPut(l.st, g.c), c, l.result)
    ELSE IF ~IsValid(value) THEN Ret(st, "nil")
    ELSE LET w == write(st, c, startList) IN
         IF w.err /= "nil" THEN w
         ELSE LET l == orderedFields(hf.sfs, value, 1, TRUE, c, w.st, d) IN
              IF l.err /= "nil" THEN l ELSE write(l.st, c, endList)

RECURSIVE seqLoop(_, _, _, _, _, _)

\* the ordered hashSeq once vhf(v, c) has returned r for the i-th value
seqRan(vhf, value, i, c, d, r) ==
    IF r.err /= "nil" THEN r ELSE seqLoop(vhf, value, i + 1, c, r.st, d)

\* the ordered hashSeq at the i-th value once the comma was written, or not, as w
seqEmit(vhf, value, i, c, d, w) ==
    IF w.err /= "nil" THEN w
    ELSE seqRan(vhf, value, i, c, d, Run(vhf, value.elems[i], c, w.st, d + 1))

\* the ordered hashSeq at its first value that is not skipped: vhf is compiled
seqFirst(value, i, c, d, st, mk) ==
    IF mk.m.err /= "nil" THEN Ret([st EXCEPT !.cache = mk.cache, !.hv = mk.hv], mk.m.err)
    ELSE seqEmit(mk.m.hf, value, i, c, d,
                 Ret([st EXCEPT !.cache = mk.cache, !.hv = mk.hv], "nil"))

\* the loop of the ordered hashSeq from the i-th value of the sequence on; vhf is
\* NoHF as long as it is nil
seqLoop(vhf, value, i, c, st, d) ==
    IF i > Len(value.elems) THEN Ret(st, "nil")
    ELSE IF ~IsValid(value.elems[i]) \/ (opts.IgnoreZero /\ isZero(value.elems[i]))
    THEN seqLoop(vhf, value, i + 1, c, st, d)
    ELSE IF vhf = NoHF
    THEN seqFirst(value, i, c, d, st, makeHashFunc(value.elems[i].t, st.cache, st.hv))
    ELSE seqEmit(vhf, value, i, c, d, write(st, c, comma))

\* the end of an ordered encoder whose loop has ended as l
listEnd(c, l) == IF l.err /= "nil" THEN l ELSE write(l.st, c, endList)

\* the start of an ordered hashSeq or hashSeq2
listStart(value, c, st) ==
    IF ~IsValid(value) \/ (opts.IgnoreZero /\ IsZero(value)) THEN Ret(st, "skip")
    ELSE write(st, c, startList)

\* the ordered closure of hashSeq from its loop on, w being what came before
seqBody(value, c, d, w) ==
    IF w.err = "skip" THEN Ret(w.st, "nil")
    ELSE IF w.err /= "nil" THEN w
    ELSE listEnd(c, seqLoop(NoHF, value, 1, c, w.st, d))

\* the closure hashSeq() returns when UnorderedSeq is off
hashSeq(hf, value, c, st, d) == seqBody(value, c, d, listStart(value, c, st))

RECURSIVE seq2Loop(_, _, _, _, _, _, _)

\* the ordered hashSeq2 once vhf(v, c) has returned e for the i-th pair
seq2Ran(khf, vhf, value, i, c, d, e) ==
    IF e.err /= "nil" THEN e ELSE seq2Loop(khf, vhf, value, i + 1, c, e.st, d)

\* the ordered hashSeq2 once khf(k, c) has returned a for the i-th pair: the
\* colon and vhf(v, c) follow whatever a is, and the first error is returned
seq2Val(khf, vhf, value, i, c, d, a, b) ==
    seq2Ran(khf, vhf, value, i, c, d,
            LET e == Run(vhf, value.elems[i], c, b.st, d + 1)
            IN Ret(e.st, threeErr(a.err, b.err, e.err)))

seq2Key(khf, vhf, value, i, c, d, a) ==
    seq2Val(khf, vhf, value, i, c, d, a, write(a.st, c, colon))

\* the ordered hashSeq2 at the i-th pair once the comma was written, or not, as w
seq2Emit(khf, vhf, value, i, c, d, w) ==
    IF w.err /= "nil" THEN w
    ELSE seq2Key(khf, vhf, value, i, c, d, Run(khf, value.keys[i], c, w.st, d + 1))

\* vhf is compiled, khf was
seq2Second(mk1, value, i, c, d, mk) ==
    IF mk.m.err /= "nil" THEN Ret(mk.st, mk.m.err)
    ELSE seq2Emit(mk1.m.hf, mk.m.hf, value, i, c, d, Ret(mk.st, "nil"))

\* makeHashFunc(t) on the Hasher as st holds it: what it returned, and st after it
compile(t, st) ==
    LET mk == makeHashFunc(t, st.cache, st.hv)
    IN [m |-> mk.m, st |-> [st EXCEPT !.cache = mk.cache, !.hv = mk.hv]]

\* the ordered hashSeq2 at its first pair that is not skipped: khf is compiled
seq2First(value, i, c, d, mk) ==
    IF mk.m.err /= "nil" THEN Ret(mk.st, mk.m.err)
    ELSE seq2Second(mk, value, i, c, d, compile(value.elems[i].t, mk.st))

\* the loop of the ordered hashSeq2 from the i-th pair of the sequence on; khf
\* and vhf are NoHF as long as they are nil
seq2Loop(khf, vhf, value, i, c, st, d) ==
    IF i > Len(value.elems) THEN Ret(st, "nil")
    ELSE IF \/ ~IsValid(value.keys[i])
            \/ ~IsValid(value.elems[i])
            \/ (opts.IgnoreZero /\ isZero(value.elems[i]))
    THEN seq2Loop(khf, vhf, value, i + 1, c, st, d)
    ELSE IF khf = NoHF \/ vhf = NoHF
    THEN seq2First(value, i, c, d, compile(value.keys[i].t, st))
    ELSE seq2Emit(khf, vhf, value, i, c, d, write(st, c, comma))

\* the ordered closure of hashSeq2 from its loop on, w being what came before
seq2Body(value, c, d, w) ==
    IF w.err = "skip" THEN Ret(w.st, "nil")
    ELSE IF w.err /= "nil" THEN w
    ELSE listEnd(c, seq2Loop(NoHF, NoHF, value, 1, c, w.st, d))

\* the closure hashSeq2() returns when UnorderedSeq2 is off
hashSeq2(hf, value, c, st, d) == seq2Body(value, c, d, listStart(value, c, st))

\* hashPointer, had it fed the pointer's address to the accumulator
hashPointerAddress(hf, value, c, st, d) ==
    IF ~IsValid(value) \/ IsNil(value) THEN Ret(st, "nil")
    ELSE IF Contains(st.cont[c].visited, value.addr) THEN Ret(st, "nil")
    ELSE LET w == writeUint64(st, c, value.addr) IN
         Run(hf.sub[1], PtrElem(value), c,
             [w.st EXCEPT !.cont[c].visited = Append(@, value.addr)], d + 1)

\* hashPointer, had it not looked at ZeroNil
hashPointerNoZeroNil(hf, value, c, st, d) ==
    IF ~IsValid(value) \/ IsNil(value) THEN Ret(st, "nil")
    ELSE IF Contains(st.cont[c].visited, value.addr) THEN Ret(st, "nil")
    ELSE Run(hf.sub[1], PtrElem(value), c,
             [st EXCEPT !.cont[c].visited = Append(@, value.addr)], d + 1)

\* c.visited = append(c.visited, ptr), and a note in the log that the call
\* goes on to encode what ptr points to
visit(st, c, ptr) ==
    [st EXCEPT !.cont[c].visited = Append(@, ptr), !.log = Append(@, <<"deref", ptr, c>>)]

hashPointer(hf, value, c, st, d) ==
    IF ~IsValid(value) THEN Ret(st, "nil")
    ELSE IF IsNil(value)
    THEN IF opts.ZeroNil THEN Run(hf.sub[1], Zero(Elem(hf.t)), c, st, d + 1)
         ELSE Ret(st, "nil")
    ELSE IF Contains(st.cont[c].visited, value.addr) THEN Ret(st, "nil")
    ELSE Run(hf.sub[1], PtrElem(value), c, visit(st, c, value.addr), d + 1)

\* hf(value, c).  A goroutine whose stack cannot grow any more dies, and the
\* process with it: the call never returns.
Run(hf, value, c, st, d) ==
    IF st.crash THEN Ret(st, "dead")
    ELSE IF d > MaxDepth THEN Ret([st EXCEPT !.crash = TRUE], "overflow")
    ELSE CASE hf.k = "noop" -> Ret(st, "nil")
           [] hf.k = "hashInterface" -> hashInterface(hf, value, c, st, d)
           [] hf.k = "hashPointer" -> hashPointer(hf, value, c, st, d)
           [] hf.k = "string" -> write(st, c, value.s)
           [] hf.k = "int" -> writeUint64(st, c, value.n)
           [] hf.k = "uint" -> writeUint64Wide(st, c, Uint(value))
           [] hf.k = "float" -> writeFloat64(st, c, value)
           [] hf.k = "complex" -> hashComplex(value, c, st)
           [] hf.k = "bool" -> write(st, c, IF value.n = 1 THEN byteTrue ELSE byteFalse)
           [] hf.k = "hashByteSlice" -> hashByteSlice(hf, value, c, st, d)
           [] hf.k = "hashSliceArray" -> hashSliceArray(hf, value, c, st, d)
           [] hf.k = "hashUnorderedSliceArray" -> hashUnorderedSliceArray(hf, value, c, st, d)
           [] hf.k = "hashMap" -> hashMap(hf, value, c, st, d)
           [] hf.k = "hashStruct" -> hashStruct(hf, value, c, st, d)
           [] hf.k = "hashInterfaceHashWriter" -> hashInterfaceHashWriter(hf, value, c, st, d)
           [] hf.k = "hashSeq" /\ ~opts.UnorderedSeq -> hashSeq(hf, value, c, st, d)
           [] hf.k = "hashSeq2" /\ ~opts.UnorderedSeq2 -> hashSeq2(hf, value, c, st, d)
           [] hf.k \in {"hashInterfaceBinary", "hashInterfaceText", "hashInterfaceJSON",
                        "hashInterfaceStringer"} ->
                hashInterfaceMarshal(hf, value, c, st, d)

(***************************************************************************)
(* Hasher.Hash.                                                            *)
(***************************************************************************)
Out(st, c, err) ==
    [st |-> st, c |-> c, result |-> Sum64(st.cont[c].hash), err |-> err]

\* hashEnter, had Hash not reset the container it got
hashEnterNoReset(st) == poolGet(st)

\* c := h.containerPool.Get().(*container); c.Reset()
hashEnter(st) ==
    LET g == poolGet(st) IN [st |-> Reset(g.st, g.c), c |-> g.c]

\* Hash from the return of its makeHashFunc call on, given what that call returned
hashRan(c, r) == Out(poolPut(r.st, c), c, r.err)

hashLeave(value, c, hf, err, st) ==
    IF err /= "nil" THEN Out(poolPut(st, c), c, err)
    ELSE hashRan(c, Run(hf, value, c, begin(st, c), 1))

\* h.Hash(value), run by one goroutine with no other goroutine in Hash
HashCall(value, st) ==
    LET e == hashEnter(st) IN
    IF ~IsValid(value) THEN Out(poolPut(e.st, e.c), e.c, "nil")
    ELSE LET mk == makeHashFunc(value.t, e.st.cache, e.st.hv) IN
         hashLeave(value, e.c, mk.m.hf, mk.m.err,
                   [e.st EXCEPT !.cache = mk.cache, !.hv = mk.hv])

(***************************************************************************)
(* The Hasher as a state machine.  A scenario fixes the Options given to   *)
(* New, the values the callers hash and the accumulator writes that may    *)
(* fail.                                                                   *)
(***************************************************************************)
Scenario ==
    [ alias   |-> [opts |-> DefaultOptions, inputs |-> {"pp", "pq", "i5", "nil"},
                   fails |-> {0}],
      cycle   |-> [opts |-> DefaultOptions, inputs |-> {"cyc1", "cyc2", "nv", "pn1"},
                   fails |-> {0}],
      self    |-> [opts |-> DefaultOptions, inputs |-> {"selfmap", "selfsl", "cyc1"},
                   fails |-> {0}],
      selfset |-> [opts |-> [DefaultOptions EXCEPT !.UnorderedSlice = TRUE],
                   inputs |-> {"selfsl", "pp", "pq"}, fails |-> {0}],
      unsupp  |-> [opts |-> DefaultOptions, inputs |-> {"fn", "sfn", "anyfn", "i5"},
                   fails |-> {0}],
      conc    |-> [opts |-> DefaultOptions, inputs |-> {"i5", "pq"}, fails |-> {0}],
      concfold |-> [opts |-> DefaultOptions, inputs |-> {"mnest"}, fails |-> {0}],
      fail    |-> [opts |-> DefaultOptions, inputs |-> {"msi", "pq", "nil"},
                   fails |-> 0..MaxFail],
      failset |-> [opts |-> [DefaultOptions EXCEPT !.UnorderedSlice = TRUE],
                   inputs |-> {"pq", "msi"}, fails |-> 0..MaxFail],
      excl    |-> [opts |-> DefaultOptions, inputs |-> {"ex1", "ex2", "i5"}, fails |-> {0}],
      exclset |-> [opts |-> [DefaultOptions EXCEPT !.UnorderedStruct = TRUE],
                   inputs |-> {"ex1", "ex2"}, fails |-> {0}],
      unexp   |-> [opts |-> DefaultOptions, inputs |-> {"ux1", "ux2"}, fails |-> {0}],
      order   |-> [opts |-> DefaultOptions, inputs |-> {"mixab", "mixba", "msi"},
                   fails |-> {0}],
      nilptr  |-> [opts |-> DefaultOptions, inputs |-> {"nilpint", "pz", "i0"},
                   fails |-> {0}],
      zeronil |-> [opts |-> [DefaultOptions EXCEPT !.ZeroNil = TRUE],
                   inputs |-> {"nilpint", "pz", "i0"}, fails |-> {0}],
      zskip   |-> [opts |-> [DefaultOptions EXCEPT !.IgnoreZero = TRUE],
                   inputs |-> {"z1", "bc23", "z2", "ac13", "z3", "ab12"}, fails |-> {0}],
      zskipset |-> [opts |-> [DefaultOptions EXCEPT !.IgnoreZero = TRUE,
                                                    !.UnorderedStruct = TRUE],
                    inputs |-> {"z1", "bc23", "z2", "ac13", "z3", "ab12"},
                    fails |-> {0}],
      strings |-> [opts |-> DefaultOptions, inputs |-> {"sa3b", "sab"}, fails |-> {0}],
      reach   |-> [opts |-> DefaultOptions,
                   inputs |-> {"cyc1", "cycb3", "listb2", "listb3"}, fails |-> {0}],
      tags    |-> [opts |-> DefaultOptions, inputs |-> {"bt", "ex1"}, fails |-> {0}],
      writer  |-> [opts |-> DefaultOptions, inputs |-> {"ch0", "chabc"}, fails |-> {0}],
      writerz |-> [opts |-> [DefaultOptions EXCEPT !.IgnoreZero = TRUE],
                   inputs |-> {"ch0", "chabc"}, fails |-> {0}],
      writero |-> [opts |-> [UnorderedStruct |-> TRUE, UnorderedArray |-> TRUE,
                             UnorderedSlice |-> TRUE, UnorderedSeq |-> TRUE,
                             UnorderedSeq2 |-> TRUE, Text |-> TRUE, JSON |-> TRUE,
                             String |-> TRUE, ZeroNil |-> TRUE, IgnoreZero |-> FALSE],
                   inputs |-> {"ch0", "chabc"}, fails |-> {0}],
      frame   |-> [opts |-> DefaultOptions,
                   inputs |-> {"s012", "a102", "q012", "kv0560", "z2"}, fails |-> {0}],
      framez  |-> [opts |-> [DefaultOptions EXCEPT !.IgnoreZero = TRUE],
                   inputs |-> {"s012", "s120", "a102", "q012", "q120", "kv0560"},
                   fails |-> {0}],
      fold    |-> [opts |-> [DefaultOptions EXCEPT !.UnorderedSlice = TRUE,
                                                   !.UnorderedArray = TRUE],
                   inputs |-> {"sempty", "s11", "s123", "a102", "mempty", "msi"},
                   fails |-> {0}],
      foldz   |-> [opts |-> [DefaultOptions EXCEPT !.UnorderedSlice = TRUE,
                                                   !.IgnoreZero = TRUE],
                   inputs |-> {"sempty", "s012", "s11"}, fails |-> {0}],
      guard   |-> [opts |-> DefaultOptions, inputs |-> {"pinmap", "pp", "msi"},
                   fails |-> {0}],
      ints    |-> [opts |-> DefaultOptions,
                   inputs |-> {"i8m1", "i64m1", "u64max", "i258", "u8x"}, fails |-> {0}],
      floats  |-> [opts |-> DefaultOptions,
                   inputs |-> {"f32", "f64", "fm2", "c128", "btrue", "bfalse"},
                   fails |-> {0}],
      nildeleg |-> [opts |-> DefaultOptions,
                    inputs |-> {"bm0", "nilpbm", "nilpch", "bm1"}, fails |-> {0}],
      nildelegz |-> [opts |-> [DefaultOptions EXCEPT !.IgnoreZero = TRUE],
                     inputs |-> {"bm0", "nilpbm", "nilpch", "bm1"}, fails |-> {0}],
      deleg   |-> [opts |-> DefaultOptions, inputs |-> {"bm1", "tma", "st12", "chabc"},
                   fails |-> {0}],
      delegon |-> [opts |-> [DefaultOptions EXCEPT !.Text = TRUE, !.JSON = TRUE,
                                                   !.String = TRUE],
                   inputs |-> {"bm1", "tma", "jma", "st12"}, fails |-> {0}] ]

Goroutines == {"g1", "g2"}

\* what a Hash call was given and what it returned: the digest and the error, with
\* the bytes its root container c took, the pool traffic of the call, and whether
\* the call died instead of returning
Result(v, failAt, o) ==
    [v |-> v, result |-> o.result, err |-> o.err, bytes |-> o.st.cont[o.c].hash,
     c |-> o.c, failAt |-> failAt, log |-> o.st.log, crash |-> o.st.crash]

NoResult ==
    [v |-> "", result |-> 0, err |-> "nil", bytes |-> <<>>, c |-> 0, failAt |-> 0,
     log |-> <<>>, crash |-> FALSE]

Idle == [pc |-> "idle", v |-> "", c |-> 0, m |-> Machine("int"), log |-> <<>>, out |-> NoResult]

\* the Hasher's state as a call finds it
St(nw, failAt, log) ==
    [cont |-> containers, pool |-> pool, cache |-> hashFuncMap, hv |-> visited,
     nw |-> nw, failAt |-> failAt, log |-> log, crash |-> FALSE]

\* New(init, opts)
Init ==
    /\ scn \in DOMAIN Scenario
    /\ opts = Scenario[scn].opts
    /\ hashFuncMap = [t \in Types |-> NoHF]
    /\ visited = <<>>
    /\ containers = <<>>
    /\ pool = <<>>
    /\ calls = 0
    /\ last = NoResult
    /\ res = [i \in Inputs |-> NoResult]
    /\ crashed = FALSE
    /\ th = [g \in Goroutines |-> Idle]

\* the Hasher and the bookkeeping after a call that ended as o: a call that
\* overflowed the stack or panicked returned nothing and left a dead process
Returned(name, failAt, o) ==
    IF o.st.crash
    THEN /\ crashed' = TRUE
         /\ last' = [NoResult EXCEPT !.v = name, !.err = o.err, !.crash = TRUE]
         /\ UNCHANGED <<hashFuncMap, visited, containers, pool, res>>
    ELSE /\ hashFuncMap' = o.st.cache
         /\ visited' = o.st.hv
         /\ containers' = o.st.cont
         /\ pool' = o.st.pool
         /\ last' = Result(name, failAt, o)
         /\ res' = [res EXCEPT ![name] = Result(name, failAt, o)]
         /\ UNCHANGED crashed

\* one goroutine calls h.Hash(InputValue[name]) and the call runs to its end
Hash(name, failAt) ==
    /\ ~crashed
    /\ calls < MaxCalls
    /\ Returned(name, failAt, HashCall(InputValue[name], St(0, failAt, <<>>)))
    /\ calls' = calls + 1
    /\ UNCHANGED <<scn, opts, th>>

\* a garbage collection empties the sync.Pool
PoolDrop ==
    /\ ~crashed
    /\ pool /= <<>>
    /\ pool' = <<>>
    /\ UNCHANGED <<scn, opts, hashFuncMap, visited, containers, calls, last, res, crashed, th>>

Next ==
    \/ \E name \in Scenario[scn].inputs, failAt \in Scenario[scn].fails : Hash(name, failAt)
    \/ PoolDrop

Spec == Init /\ [][Next]_vars

(***************************************************************************)
(* Concurrent callers: each goroutine is inside at most one Hash call, and *)
(* the steps of its makeHashFunc interleave with the other goroutines'.    *)
(***************************************************************************)
ConcScenarios == {"conc", "concfold"}

ConcInit == Init /\ scn \in ConcScenarios

\* goroutine g calls h.Hash(InputValue[name]): Get, Reset, reflect.ValueOf, and
\* the call of makeHashFunc(v.Type()) unless the value is invalid
Enter(g, name) ==
    /\ ~crashed
    /\ calls < MaxConcCalls
    /\ th[g].pc \in {"idle", "done"}
    /\ LET e == hashEnter(St(0, 0, <<>>))
           value == InputValue[name]
       IN /\ containers' = e.st.cont
          /\ pool' = e.st.pool
          /\ th' = [th EXCEPT ![g] =
                       [pc |-> "makeHashFunc", v |-> name, c |-> e.c,
                        m |-> IF IsValid(value) THEN Machine(value.t)
                              ELSE [Machine("int") EXCEPT !.stack = <<>>, !.done = TRUE],
                        log |-> e.st.log, out |-> NoResult]]
    /\ calls' = calls + 1
    /\ UNCHANGED <<scn, opts, hashFuncMap, visited, last, res, crashed>>

\* goroutine g takes one step of its makeHashFunc
Compile(g) ==
    /\ ~crashed
    /\ th[g].pc = "makeHashFunc"
    /\ ~th[g].m.done
    /\ LET ms == makeHashFuncStep(th[g].m, hashFuncMap, visited) IN
        /\ hashFuncMap' = ms.cache
        /\ visited' = ms.hv
        /\ th' = [th EXCEPT ![g].m = ms.m]
    /\ UNCHANGED <<scn, opts, containers, pool, calls, last, res, crashed>>

\* what the rest of goroutine g's Hash call comes to: the encoder, Sum64, Put
LeaveOut(g) ==
    LET value == InputValue[th[g].v]
        st == St(0, 0, th[g].log)
    IN IF ~IsValid(value) THEN Out(poolPut(st, th[g].c), th[g].c, "nil")
       ELSE hashLeave(value, th[g].c, th[g].m.hf, th[g].m.err, st)

\* goroutine g's Hash call returns o
LeaveWith(g, o) ==
    /\ Returned(th[g].v, 0, o)
    /\ th' = [th EXCEPT ![g].pc = "done",
                        ![g].out = IF o.st.crash THEN NoResult
                                   ELSE Result(th[g].v, 0, o)]

\* goroutine g runs the rest of Hash: the encoder, Sum64, Put, return
Leave(g) ==
    /\ ~crashed
    /\ th[g].pc = "makeHashFunc"
    /\ th[g].m.done
    /\ LeaveWith(g, LeaveOut(g))
    /\ UNCHANGED <<scn, opts, calls>>

ConcNext ==
    \/ \E g \in Goroutines, name \in Scenario[scn].inputs : Enter(g, name)
    \/ \E g \in Goroutines : Compile(g)
    \/ \E g \in Goroutines : Leave(g)
    \/ PoolDrop

ConcSpec == ConcInit /\ [][ConcNext]_vars

(***************************************************************************)
(* The tag-options Hasher (src/datahash.go 828-1777): Options that a       *)
(* struct tag extends per field.                                           *)
(***************************************************************************)
\* Options of the tag-options Hasher, without the tag key
TagOptions ==
    [Marker |-> FALSE, Set |-> FALSE, Binary |-> FALSE, Text |-> FALSE, JSON |-> FALSE,
     String |-> FALSE, ZeroNil |-> FALSE, IgnoreZero |-> FALSE]

\* strings.SplitSeq(tag, ","): the tags of more than one token, by their tokens
TagSplit == ("ignorezero,bogus" :> <<"ignorezero", "bogus">>)

SplitSeq(tag) == IF tag \in DOMAIN TagSplit THEN TagSplit[tag] ELSE <<tag>>

RECURSIVE withLoop(_, _, _)
\* the loop of with from the i-th token on
withLoop(o, tokens, i) ==
    IF i > Len(tokens) THEN [opts |-> o, err |-> "nil"]
    ELSE CASE tokens[i] = "marker" -> withLoop([o EXCEPT !.Marker = TRUE], tokens, i + 1)
           [] tokens[i] = "json" -> withLoop([o EXCEPT !.JSON = TRUE], tokens, i + 1)
           [] tokens[i] = "text" -> withLoop([o EXCEPT !.Text = TRUE], tokens, i + 1)
           [] tokens[i] = "binary" -> withLoop([o EXCEPT !.Binary = TRUE], tokens, i + 1)
           [] tokens[i] = "string" -> withLoop([o EXCEPT !.String = TRUE], tokens, i + 1)
           [] tokens[i] = "set" -> withLoop([o EXCEPT !.Set = TRUE], tokens, i + 1)
           [] tokens[i] = "zeronil" -> withLoop([o EXCEPT !.ZeroNil = TRUE], tokens, i + 1)
           [] tokens[i] = "ignorezero" ->
                withLoop([o EXCEPT !.IgnoreZero = TRUE], tokens, i + 1)
           [] OTHER -> [opts |-> o, err |-> "unknown struct tag option"]

\* with(opts, tag)
with(o, tag) ==
    IF tag = "" THEN [opts |-> o, err |-> "nil"] ELSE withLoop(o, SplitSeq(tag), 1)

openBrace == <<123>>
closeBrace == <<125>>
openBracket == <<91>>
closeBracket == <<93>>
colonTag == <<58>>
commaTag == <<44>>

\* the container the pool of the tag-options Hasher makes
NewContainerTag == [hash |-> <<>>, visited |-> <<>>, visitedTypes |-> <<>>]

\* h.pool.Get().(*container[H])
poolGetTag(st) ==
    IF st.pool = <<>>
    THEN [st |-> [st EXCEPT !.cont = Append(@, NewContainerTag),
                            !.log = Append(@, <<"get", Len(st.cont) + 1>>)],
          c |-> Len(st.cont) + 1]
    ELSE [st |-> [st EXCEPT !.pool = SubSeq(@, 1, Len(@) - 1),
                            !.log = Append(@, <<"get", st.pool[Len(st.pool)]>>)],
          c |-> st.pool[Len(st.pool)]]

\* c.Reset()
ResetTag(st, c) == [st EXCEPT !.cont[c] = NewContainerTag]

\* value.Type().String() of the types hashed on the tag-options Hasher
TypeString(t) ==
    CASE t = "int" -> <<105, 110, 116>>
      [] t = "string" -> <<115, 116, 114, 105, 110, 103>>
      [] t = "tagB" -> <<109, 97, 105, 110, 46, 116, 97, 103, 66>>
      [] t = "plainB" -> <<109, 97, 105, 110, 46, 112, 108, 97, 105, 110, 66>>
      [] t = "onlyA" -> <<109, 97, 105, 110, 46, 111, 110, 108, 121, 65>>
      [] t = "slint" -> <<91, 93, 105, 110, 116>>
      [] t = "withSet" -> <<109, 97, 105, 110, 46, 119, 105, 116, 104, 83, 101, 116>>
      [] t = "setAndList" ->
           <<109, 97, 105, 110, 46, 115, 101, 116, 65, 110, 100, 76, 105, 115, 116>>
      [] OTHER -> <<109, 97, 105, 110, 46, 98, 97, 100, 116, 97, 103>>

Compiled(hf, err, st) == [hf |-> hf, err |-> err, st |-> st]

\* hf = h.wrapType(...); h.store.Store(t, hf); return hf, nil
storeTag(st, t, hf) == Compiled(hf, "nil", [st EXCEPT !.cache[t] = hf])

RECURSIVE makeHashFuncTag(_, _, _, _)

RECURSIVE structCaseTag(_, _, _, _, _, _)
\* the struct case of makeHashFunc from field i on, sfs being the fields kept so far
structCaseTag(t, i, sfs, c, o, st) ==
    IF i > NumField(t) THEN storeTag(st, t, HF("hashStruct", "", <<>>, sfs))
    ELSE IF Field(t, i).tag = "-" THEN structCaseTag(t, i + 1, sfs, c, o, st)
    ELSE LET localOpts == with(o, Field(t, i).tag) IN
         IF localOpts.err /= "nil" THEN Compiled(NoHF, localOpts.err, st)
         ELSE LET m == makeHashFuncTag(Field(t, i).type, c, localOpts.opts, st) IN
              IF m.err /= "nil" THEN Compiled(NoHF, m.err, m.st)
              ELSE structCaseTag(t, i + 1,
                                 Append(sfs, structField(Field(t, i).name, m.hf, i)),
                                 c, o, m.st)

\* hashSlice(vhf, opts): the fold if opts.Set, else hashArray(vhf)
hashSliceTag(vhf, o) ==
    IF ~o.Set THEN HF("hashArray", "", <<vhf>>, <<>>) ELSE HF("hashSlice", "", <<vhf>>, <<>>)

\* the slice case of makeHashFunc
sliceCaseTag(t, c, o, st) ==
    LET m == makeHashFuncTag(Elem(t), c, o, st) IN
    IF m.err /= "nil" THEN Compiled(NoHF, m.err, m.st)
    ELSE storeTag(m.st, t, hashSliceTag(m.hf, o))

\* makeHashFunc(t, c, opts) of the tag-options Hasher, for the kinds of the values
\* hashed on it here: HashWriter types, strings, ints, and slices and structs of
\* these
makeHashFuncTag(t, c, o, st) ==
    IF st.cache[t] /= NoHF THEN Compiled(st.cache[t], "nil", st)
    ELSE IF Contains(st.cont[c].visitedTypes, t) THEN Compiled(noop, "nil", st)
    ELSE LET s1 == [st EXCEPT !.cont[c].visitedTypes = Append(@, t)] IN
         CASE Implements(t, "HashWriter") ->
                storeTag(s1, t, HF("hashInterfaceHashWriter", "", <<>>, <<>>))
           [] Kind(t) = "String" -> storeTag(s1, t, HF("hashString", "", <<>>, <<>>))
           [] Kind(t) = "Int" -> storeTag(s1, t, HF("hashInt", "", <<>>, <<>>))
           [] Kind(t) = "Slice" -> sliceCaseTag(t, c, o, s1)
           [] Kind(t) = "Struct" -> structCaseTag(t, 1, <<>>, c, o, s1)
           [] OTHER -> Compiled(NoHF, "unsupported", s1)

RECURSIVE RunTag(_, _, _, _, _)

RECURSIVE fieldsTag(_, _, _, _, _, _, _)
\* the loop of hashStruct from the j-th structField on
fieldsTag(sfs, value, j, first, c, o, st) ==
    IF j > Len(sfs) THEN Ret(st, "nil")
    ELSE LET fv == FieldOf(value, sfs[j].idx) IN
         IF o.IgnoreZero /\ IsZero(fv) THEN fieldsTag(sfs, value, j + 1, first, c, o, st)
         ELSE LET w == IF first THEN Ret(st, "nil") ELSE write(st, c, commaTag) IN
              IF w.err /= "nil" THEN w
              ELSE LET a == write(w.st, c, sfs[j].name) IN
                   IF a.err /= "nil" THEN a
                   ELSE LET k == write(a.st, c, colonTag) IN
                        IF k.err /= "nil" THEN k
                        ELSE LET e == RunTag(sfs[j].hf, fv, c, o, k.st) IN
                             IF e.err /= "nil" THEN e
                             ELSE fieldsTag(sfs, value, j + 1, FALSE, c, o, e.st)

\* the closure hashStruct(sfs) of the tag-options Hasher
hashStructTag(hf, value, c, o, st) ==
    IF ~IsValid(value) \/ IsZero(value) THEN Ret(st, "nil")
    ELSE LET w == write(st, c, openBrace) IN
         IF w.err /= "nil" THEN w
         ELSE LET l == fieldsTag(hf.sfs, value, 1, TRUE, c, o, w.st) IN
              IF l.err /= "nil" THEN l ELSE write(l.st, c, closeBrace)

RECURSIVE arrayLoopTag(_, _, _, _, _, _)
\* the loop of the closure hashArray(vhf) from index i on
arrayLoopTag(vhf, value, i, c, o, st) ==
    IF i > Len(value.elems) THEN Ret(st, "nil")
    ELSE LET w == IF i > 1 THEN write(st, c, commaTag) ELSE Ret(st, "nil") IN
         IF w.err /= "nil" THEN w
         ELSE LET e == RunTag(vhf, Index(value, i), c, o, w.st) IN
              IF e.err /= "nil" THEN e ELSE arrayLoopTag(vhf, value, i + 1, c, o, e.st)

\* the closure hashArray(vhf) of the tag-options Hasher
hashArrayTag(hf, value, c, o, st) ==
    IF ~IsValid(value) \/ IsZero(value) THEN Ret(st, "nil")
    ELSE LET w == write(st, c, openBracket) IN
         IF w.err /= "nil" THEN w
         ELSE LET l == arrayLoopTag(hf.sub[1], value, 1, c, o, w.st) IN
              IF l.err /= "nil" THEN l ELSE write(l.st, c, closeBracket)

RECURSIVE setLoopTag(_, _, _, _, _, _, _)
\* the loop of the fold closure of hashSlice from index i on
setLoopTag(vhf, value, i, result, tmp, o, st) ==
    IF i > Len(value.elems) THEN Fold(st, "nil", result)
    ELSE LET val == Index(value, i) IN
         IF ~IsValid(val) \/ IsZero(val)
         THEN setLoopTag(vhf, value, i + 1, result, tmp, o, st)
         ELSE LET e == RunTag(vhf, val, tmp, o, ResetTag(st, tmp)) IN
              IF e.err /= "nil" THEN Fold(e.st, e.err, result)
              ELSE setLoopTag(vhf, value, i + 1,
                              Xor(result, Sum64(e.st.cont[tmp].hash)), tmp, o, e.st)

\* what the fold closure of hashSlice does once its loop has ended as l
setEndTag(c, tmp, l) ==
    IF l.err /= "nil" THEN Ret(poolPut(l.st, tmp), l.err)
    ELSE writeUint64(poolPut(l.st, tmp), c, l.result)

\* the fold closure of hashSlice(vhf, opts) of the tag-options Hasher
hashSliceSetTag(hf, value, c, o, st) ==
    IF ~IsValid(value) \/ IsZero(value) THEN Ret(st, "nil")
    ELSE LET g == poolGetTag(st) IN
         setEndTag(c, g.c, setLoopTag(hf.sub[1], value, 1, 0, g.c, o, g.st))

\* hashInterfaceHashWriter of the tag-options Hasher
hashInterfaceHashWriterTag(hf, value, c, o, st) ==
    IF ~IsValid(value) \/ IsZero(value) THEN Ret(st, "nil") ELSE WriteHash(value, c, st)

\* the closure wrapType(hf) without its Marker prefix
wrapped(hf, value, c, o, st) ==
    CASE hf.k = "hashInt" -> writeUint64(st, c, value.n)
      [] hf.k = "hashString" -> write(st, c, value.s)
      [] hf.k = "hashStruct" -> hashStructTag(hf, value, c, o, st)
      [] hf.k = "hashArray" -> hashArrayTag(hf, value, c, o, st)
      [] hf.k = "hashSlice" -> hashSliceSetTag(hf, value, c, o, st)
      [] hf.k = "hashInterfaceHashWriter" -> hashInterfaceHashWriterTag(hf, value, c, o, st)

\* hf(value, c, opts): the no-op of a re-entrant type, or a closure of wrapType
RunTag(hf, value, c, o, st) ==
    IF hf.k = "noop" THEN Ret(st, "nil")
    ELSE LET w == IF o.Marker THEN write(st, c, TypeString(value.t)) ELSE Ret(st, "nil") IN
         IF w.err /= "nil" THEN w ELSE wrapped(hf, value, c, o, w.st)

OutTag(st, c, result, err) == [st |-> st, c |-> c, result |-> result, err |-> err]

\* h.Hash(value) of the tag-options Hasher
HashCallTag(value, st) ==
    LET g == poolGetTag(st)
        s0 == ResetTag(g.st, g.c)
    IN IF ~IsValid(value) THEN OutTag(s0, g.c, 0, "nil")
       ELSE LET mk == makeHashFuncTag(value.t, g.c, opts, s0) IN
            IF mk.err /= "nil" THEN OutTag(mk.st, g.c, 0, mk.err)
            ELSE LET r == RunTag(mk.hf, value, g.c, opts, mk.st) IN
                 IF r.err /= "nil" THEN OutTag(poolPut(r.st, g.c), g.c, 0, r.err)
                 ELSE OutTag(poolPut(r.st, g.c), g.c, Sum64(r.st.cont[g.c].hash), "nil")

TagScenario ==
    [ tagdef  |-> [opts |-> TagOptions, inputs |-> {"tb", "pb", "oa", "bt"}],
      tagzero |-> [opts |-> [TagOptions EXCEPT !.IgnoreZero = TRUE],
                   inputs |-> {"tb", "pb", "oa"}],
      tagset  |-> [opts |-> TagOptions, inputs |-> {"ws12", "s123", "s321"}],
      tagmix  |-> [opts |-> TagOptions, inputs |-> {"sl12", "sl21", "s123"}] ]

\* New(init, opts) of the tag-options Hasher
TagInit ==
    /\ scn \in DOMAIN TagScenario
    /\ opts = TagScenario[scn].opts
    /\ hashFuncMap = [t \in Types |-> NoHF]
    /\ visited = <<>>
    /\ containers = <<>>
    /\ pool = <<>>
    /\ calls = 0
    /\ last = NoResult
    /\ res = [i \in Inputs |-> NoResult]
    /\ crashed = FALSE
    /\ th = [g \in Goroutines |-> Idle]

\* one goroutine calls h.Hash(InputValue[name]) on the tag-options Hasher
HashTag(name) ==
    /\ calls < MaxCalls
    /\ Returned(name, 0, HashCallTag(InputValue[name], St(0, 0, <<>>)))
    /\ calls' = calls + 1
    /\ UNCHANGED <<scn, opts, th>>

TagNext ==
    \/ \E name \in TagScenario[scn].inputs : HashTag(name)
    \/ PoolDrop

TagSpec == TagInit /\ [][TagNext]_vars

(***************************************************************************)
(* What the properties speak of.                                           *)
(***************************************************************************)
\* a Hasher just returned by New
FreshSt ==
    [cont |-> <<>>, pool |-> <<>>, cache |-> [t \in Types |-> NoHF], hv |-> <<>>,
     nw |-> 0, failAt |-> 0, log |-> <<>>, crash |-> FALSE]

\* what Hash returns for the input on a Hasher just returned by New(init, opts)
FreshHash(name) == HashCall(InputValue[name], FreshSt)

\* the encoder a Hasher just returned by New compiles for t
FreshEncoder(t) == makeHashFunc(t, FreshSt.cache, FreshSt.hv).m.hf

RECURSIVE ContentEq(_, _, _)
\* v and w are equal by content, pointers by their pointees, as far as k levels down
ContentEq(v, w, k) ==
    \/ k = 0
    \/ /\ v.t = w.t /\ v.n = w.n /\ v.s = w.s /\ v.isnil = w.isnil
       /\ Len(v.elems) = Len(w.elems)
       /\ \A i \in 1..Len(v.elems) : ContentEq(v.elems[i], w.elems[i], k - 1)
       /\ Len(v.keys) = Len(w.keys)
       /\ \A i \in 1..Len(v.keys) : ContentEq(v.keys[i], w.keys[i], k - 1)
       /\ (v.addr = 0) = (w.addr = 0)
       /\ v.addr /= 0 => ContentEq(Deref(v.addr), Deref(w.addr), k - 1)

\* the call named in r returned, and its accumulator rejected no write
Done(r) == r.v /= "" /\ ~r.crash /\ r.failAt = 0

Count(log, ev) == Cardinality({i \in 1..Len(log) : log[i] = ev})

\* every container the log shows taken was put back, once per Get, after the Get
Released(log) ==
    /\ \A c \in 1..Len(log) : Count(log, <<"get", c>>) = Count(log, <<"put", c>>)
    /\ \A n \in 1..Len(log), c \in 1..Len(log) :
          Count(SubSeq(log, 1, n), <<"put", c>>) <= Count(SubSeq(log, 1, n), <<"get", c>>)

EmptyDigest == Sum64(<<>>)

\* C1: under default options any two inputs that are equal by content, such as
\* []*int{p, p} and []*int{p, q} with *p == *q, are encoded to the same bytes and
\* the same digest.
C1_ContentDecidesDigest ==
    \A a, b \in Inputs :
        ( /\ opts = DefaultOptions
          /\ a /= b
          /\ ContentEq(InputValue[a], InputValue[b], MaxDepth)
          /\ Done(res[a]) /\ Done(res[b]) )
        => (res[a].bytes = res[b].bytes /\ res[a].result = res[b].result)

\* C2: a Hash call on a value returns the digest the previous Hash call on that
\* value returned on this Hasher, whatever was hashed in between.
C2_Repeatable ==
    [][ (calls' = calls + 1 /\ Done(last') /\ Done(res[last'.v]))
        => last'.result = res[last'.v].result ]_vars

\* C3: however the makeHashFunc steps of concurrent callers of a fresh Hasher
\* interleave, every call returns what it returns when run alone on a fresh
\* Hasher, and once all callers are out the cache holds, for every type, the
\* encoder a lone caller compiles.
C3_ConcurrentCallsBenign ==
    /\ \A g \in Goroutines :
          th[g].pc = "done" =>
              /\ th[g].out.result = FreshHash(th[g].v).result
              /\ th[g].out.err = FreshHash(th[g].v).err
    /\ (\A g \in Goroutines : th[g].pc \in {"idle", "done"}) =>
          \A t \in Types : hashFuncMap[t] /= NoHF => hashFuncMap[t] = FreshEncoder(t)

\* C4: a Hash call on a node or *node value returns what a Hasher just built with
\* the same Options returns for it, whichever values this Hasher hashed before.
C4_HistoryIndependent ==
    (Done(last) /\ last.v \in {"nv", "pn1", "cyc1", "cyc2"})
    => ( /\ last.result = FreshHash(last.v).result
         /\ last.err = FreshHash(last.v).err )

\* C5: every Hash call on a two-node pointer cycle returns, with a nil error, and
\* two separately built cycles with equal node values get equal digests, on this
\* Hasher after any calls and on a fresh one.
C5_CycleSafety ==
    /\ (last.v \in {"cyc1", "cyc2"} /\ last.failAt = 0) => (~last.crash /\ last.err = "nil")
    /\ (Done(res["cyc1"]) /\ Done(res["cyc2"])) => res["cyc1"].result = res["cyc2"].result
    /\ Done(res["cyc1"]) =>
          ( /\ ~FreshHash("cyc2").st.crash
            /\ FreshHash("cyc1").result = FreshHash("cyc2").result )

\* a cycle was hashed on a Hasher that had compiled node before *node, then the
\* other cycle
C5_Witness ==
    /\ Done(res["nv"]) /\ Done(res["cyc1"]) /\ Done(res["cyc2"])
    /\ last.v = "cyc2"
    /\ res["cyc1"].err = "nil"

\* C6: no Hash call overflows the stack: every call on a finite object graph
\* returns, also when a cycle of the graph runs through a map value, a folded
\* collection or an interface-typed element.
C6_Terminates == ~(crashed /\ last.err = "overflow")

\* C7: once Hash has returned the unsupported-type error for a value, every
\* later Hash call with a value of that type returns a non-nil error.
C7_UnsupportedRecurs ==
    [][ ( /\ calls' = calls + 1
          /\ \E name \in Inputs : /\ res[name].v /= ""
                                  /\ res[name].err = "unsupported"
                                  /\ InputValue[name].t = InputValue[last'.v].t )
        => last'.err /= "nil" ]_vars

\* C8: any two Hash calls that return a non-nil error return the same uint64,
\* whatever each had written to its accumulator before it failed.
C8_NoPartialDigest ==
    \A name \in Inputs :
        ( /\ res[name].v /= "" /\ res[name].err /= "nil"
          /\ last.v /= "" /\ ~last.crash /\ last.err /= "nil" )
        => last.result = res[name].result

\* C9: when a Hash call returns, with or without an error, every container it
\* took from the pool, the root one and the fold temporaries, has been put back,
\* once for each time it was taken.
C9_ContainersReleased ==
    (last.v /= "" /\ ~last.crash) => Released(last.log)

\* C10: Hash(nil) returns a nil error and the digest of no bytes, on every call.
C10_NilDigest ==
    last.v = "nil" => (~last.crash /\ last.err = "nil" /\ last.result = EmptyDigest)

\* Hash(nil) was given a container that an earlier call had left bytes in
C10_Witness ==
    /\ last.v = "nil"
    /\ \E name \in Inputs : /\ res[name].v \notin {"", "nil"}
                            /\ res[name].c = last.c
                            /\ res[name].bytes /= <<>>

\* C11: two values of a struct type that differ only in a field tagged
\* datahash:"-" get the same bytes and the same digest, and no encoder is ever
\* compiled or kept for the excluded field: its type stays out of the cache and
\* of the visited types, and no struct encoder holds a structField for it.
C11_FieldExclusion ==
    /\ (Done(res["ex1"]) /\ Done(res["ex2"])) =>
          /\ res["ex1"].err = "nil" /\ res["ex2"].err = "nil"
          /\ res["ex1"].bytes = res["ex2"].bytes
          /\ res["ex1"].result = res["ex2"].result
    /\ scn \in {"excl", "exclset"} =>
          (hashFuncMap["string"] = NoHF /\ ~Contains(visited, "string"))
    /\ \A t \in Types :
          hashFuncMap[t].k = "hashStruct" =>
              \A j \in 1..Len(hashFuncMap[t].sfs) :
                  Field(t, hashFuncMap[t].sfs[j].idx).tag /= "-"

\* both values were hashed and the kept field reached the accumulator
C11_Witness ==
    /\ Done(res["ex1"]) /\ Done(res["ex2"])
    /\ last.v = "ex2"
    /\ Len(res["ex1"].bytes) > 2

\* v and w are two values of one struct type that differ, and in unexported
\* fields only
DifferOnlyUnexported(v, w) ==
    /\ IsValid(v) /\ v.t = w.t /\ VKind(v) = "Struct"
    /\ v /= w
    /\ \A i \in 1..NumField(v.t) : IsExported(Field(v.t, i)) => v.elems[i] = w.elems[i]

\* C12: only exported struct fields are hashed: two struct values that differ
\* only in an unexported field get the same digest.
C12_OnlyExportedFields ==
    \A a, b \in Inputs :
        (Done(res[a]) /\ Done(res[b]) /\ DifferOnlyUnexported(InputValue[a], InputValue[b]))
        => res[a].result = res[b].result

Reverse(s) == [i \in 1..Len(s) |-> s[Len(s) + 1 - i]]

\* w is the collection v enumerated in another order, and the encoder of its
\* type folds the elements
Permuted(v, w) ==
    /\ IsValid(v) /\ v.t = w.t /\ v /= w
    /\ \/ VKind(v) = "Map"
       \/ VKind(v) = "Slice" /\ opts.UnorderedSlice
       \/ VKind(v) = "Array" /\ opts.UnorderedArray
    /\ w.elems = Reverse(v.elems)
    /\ w.keys = Reverse(v.keys)

\* C13: a folded collection gets the same digest in every enumeration order: on
\* a Hasher just built, and on this Hasher when it hashed both orders.
C13_FoldOrderIndependent ==
    \A a, b \in Inputs :
        (Permuted(InputValue[a], InputValue[b]) /\ Done(res[a])) =>
            /\ FreshHash(a).result = FreshHash(b).result
            /\ Done(res[b]) => res[a].result = res[b].result

\* C14: without ZeroNil Hash((*int)(nil)) writes no bytes and its digest differs
\* from the digest of Hash(0); with ZeroNil Hash((*int)(nil)), Hash(new(int)) and
\* Hash(0) write the same bytes and return the same digest.
C14_NilVersusZero ==
    Done(res["nilpint"]) =>
        /\ res["nilpint"].err = "nil"
        /\ ~opts.ZeroNil =>
              /\ res["nilpint"].bytes = <<>>
              /\ Done(res["i0"]) => res["nilpint"].result /= res["i0"].result
        /\ opts.ZeroNil =>
              \A name \in {"pz", "i0"} :
                  Done(res[name]) => /\ res[name].err = "nil"
                                     /\ res[name].bytes = res["nilpint"].bytes
                                     /\ res[name].result = res["nilpint"].result

\* under ZeroNil the nil pointer, the pointer to 0 and 0 were all hashed
C14_Witness ==
    /\ opts.ZeroNil
    /\ Done(res["nilpint"]) /\ Done(res["pz"]) /\ Done(res["i0"])
    /\ res["i0"].bytes /= <<>>

\* without ZeroNil the nil pointer and 0 were both hashed
C14_WitnessDefault ==
    ~opts.ZeroNil /\ Done(res["nilpint"]) /\ Done(res["i0"])

\* C15: a value of a HashWriter type, its zero value too, is encoded to what its
\* WriteHash writes and nothing else, under every Options setting.
C15_HashWriterIgnoresOptions ==
    \A name \in {"ch0", "chabc"} :
        Done(res[name]) =>
            /\ res[name].err = "nil"
            /\ res[name].bytes = customHashBytes(InputValue[name])
            /\ res[name].result = Sum64(customHashBytes(InputValue[name]))

\* the struct type t has a field that is not excluded and whose tag holds a
\* token that with does not know
UnknownTagToken(t) ==
    /\ t \in Types
    /\ Kind(t) = "Struct"
    /\ \E i \in 1..NumField(t) :
          /\ Field(t, i).tag /= "-"
          /\ with(TagOptions, Field(t, i).tag).err /= "nil"

\* C16: every Hash call on a value of a struct type that has a field tag with an
\* unrecognized token returns a non-nil error.
C16_UnknownTagTokenFails ==
    \A name \in Inputs :
        (Done(res[name]) /\ UnknownTagToken(InputValue[name].t)) => res[name].err /= "nil"

\* C17: on the tag-options Hasher with IgnoreZero off, tagB{A: 1, B: 0}, whose
\* field B is tagged ignorezero, gets a digest that differs from that of
\* plainB{A: 1, B: 0}, whose B has no tag, and equals that of onlyA{A: 1}.
C17_FieldTagTakesEffect ==
    (~opts.IgnoreZero /\ Done(res["tb"])) =>
        /\ res["tb"].err = "nil"
        /\ Done(res["pb"]) => res["tb"].result /= res["pb"].result
        /\ Done(res["oa"]) => res["tb"].result = res["oa"].result

\* a struct value with one zero field, and the value of the struct type without
\* that field: the field is the first, the middle, the last one
ZeroSkipPairs == {<<"z1", "bc23">>, <<"z2", "ac13">>, <<"z3", "ab12">>}

\* C18: under IgnoreZero a struct value whose field F is zero gets the bytes and
\* the digest of the equal value of the struct type that does not declare F,
\* with ordered and with unordered structs, F being first, middle or last.
C18_ZeroSkipIdempotent ==
    \A p \in ZeroSkipPairs :
        (opts.IgnoreZero /\ Done(res[p[1]]) /\ Done(res[p[2]])) =>
            /\ res[p[1]].err = "nil" /\ res[p[2]].err = "nil"
            /\ res[p[1]].bytes = res[p[2]].bytes
            /\ res[p[1]].result = res[p[2]].result

\* with ordered structs, the value with the zero middle field and its
\* counterpart were hashed, and both wrote two fields
C18_Witness ==
    /\ opts.IgnoreZero /\ ~opts.UnorderedStruct
    /\ Done(res["z2"]) /\ Done(res["ac13"])
    /\ Contains(res["z2"].bytes, 3)
    /\ last.v = "z2"

\* with unordered structs, the value with the zero first field and its
\* counterpart were hashed
C18_WitnessUnordered ==
    /\ opts.IgnoreZero /\ opts.UnorderedStruct
    /\ Done(res["z1"]) /\ Done(res["bc23"])
    /\ Len(res["z1"].bytes) = 10

\* C19: two slices that the ordered encoder is compiled for and that hold
\* different element lists are never encoded to the same bytes.
C19_OrderedUnambiguous ==
    \A a, b \in Inputs :
        ( /\ Done(res[a]) /\ Done(res[b])
          /\ res[a].err = "nil" /\ res[b].err = "nil"
          /\ IsValid(InputValue[a]) /\ VKind(InputValue[a]) = "Slice"
          /\ InputValue[a].t = InputValue[b].t
          /\ hashFuncMap[InputValue[a].t].k = "hashSliceArray"
          /\ ~ContentEq(InputValue[a], InputValue[b], MaxDepth) )
        => res[a].bytes /= res[b].bytes

\* a -> b with b.Value = 2 and with b.Value = 3: as a cycle and as a list
SecondNodePairs == {<<"cyc1", "cycb3">>, <<"listb2", "listb3">>}

\* C20: the bytes encoded for Hash(a) cover node b of a -> b: two lists, and two
\* cycles, that differ in b.Value only are encoded to different bytes.
C20_CoversReachableNodes ==
    \A p \in SecondNodePairs :
        (Done(res[p[1]]) /\ Done(res[p[2]])) => res[p[1]].bytes /= res[p[2]].bytes

\* the encoders that hand the value to a method of its type
DelegateKinds ==
    {"hashInterfaceHashWriter", "hashInterfaceBinary", "hashInterfaceText",
     "hashInterfaceJSON", "hashInterfaceStringer"}

\* C21: the encoder compiled for a type is the custom encoder if the type is a
\* HashWriter, else the first of the binary, text, JSON and string delegates
\* whose flag is on and which the type implements; with no delegate flag on, a
\* type that is a BinaryMarshaler and no HashWriter gets the encoder of its kind.
C21_DispatchPrecedence ==
    \A t \in Types :
        hashFuncMap[t] /= NoHF =>
            LET k == hashFuncMap[t].k IN
            /\ Implements(t, "HashWriter") => k = "hashInterfaceHashWriter"
            /\ (~Implements(t, "HashWriter") /\ ~opts.Text /\ ~opts.JSON /\ ~opts.String)
                  => k \notin DelegateKinds
            /\ (k = "hashInterfaceText") => (opts.Text /\ Implements(t, "TextMarshaler"))
            /\ (k = "hashInterfaceJSON") => (opts.JSON /\ Implements(t, "JSONMarshaler"))
            /\ (k = "hashInterfaceStringer") => (opts.String /\ Implements(t, "Stringer"))

\* C22: the latest Hash call, if its value is of a type encoded by a delegate and
\* is nil or zero, such as a nil *T, returned without a panic, with a nil error
\* and with nothing written: the method of the type was not called.
C22_DelegatesNeverSeeNil ==
    ( /\ last.v /= ""
      /\ IsValid(InputValue[last.v])
      /\ Delegate(InputValue[last.v].t) /= ""
      /\ IsZero(InputValue[last.v]) )
    => (~last.crash /\ last.err = "nil" /\ last.bytes = <<>>)

\* C23: no step of a Hash call, whatever other calls run beside it, writes a
\* field of the Hasher: opts and the visited types stay as New left them, and the
\* callers share the synchronised cache and pool only.
C23_OnlyCacheShared == [][opts' = opts /\ visited' = visited]_vars

\* C24: within one Hash call, a pointer that the root traversal has followed is
\* not followed again, neither by the root traversal nor while an element or a
\* pair of a folded collection is encoded into a temporary.
C24_GuardCoversFoldChildren ==
    (last.v /= "" /\ ~last.crash) =>
        \A i, j \in 1..Len(last.log) :
            ( /\ i < j
              /\ last.log[i][1] = "deref" /\ last.log[j][1] = "deref"
              /\ last.log[i][3] = last.c )
            => last.log[i][2] /= last.log[j][2]

\* C25: whatever the earlier Hash calls, failed ones too, left in the containers
\* they put back, the visited addresses of the container are none when the
\* encoder of the value given to Hash is called, and when the encoder of an
\* element or a pair of a fold is called with the temporary.
C25_VisitedNeverLeaks ==
    (last.v /= "" /\ ~last.crash) =>
        \A i \in 1..Len(last.log) : last.log[i][1] = "enc" => last.log[i][3] = <<>>

\* []any{p, map[string]any{"k": p}} was hashed twice: the second call was given
\* the root container and the temporary of the first, each with p in its
\* visited addresses
C25_Witness ==
    /\ scn = "guard" /\ calls = 2
    /\ last.v = "pinmap" /\ Done(last)
    /\ res["pp"].v = "" /\ res["msi"].v = ""
    /\ Len(containers) = 2
    /\ \E i, j \in 1..Len(last.log) :
          /\ last.log[i] = <<"enc", 1, <<>> >>
          /\ last.log[j] = <<"enc", 2, <<>> >>

\* C26: on the tag-options Hasher with Set off, a set tag on one []int field
\* leaves the encoding of other []int values ordered: []int{1, 2, 3} and
\* []int{3, 2, 1} get different digests whatever was hashed before, and so do two
\* values of a struct type that differ in the order of an untagged []int field.
C26_TagOptionsLocal ==
    ~opts.Set =>
        /\ (Done(res["s123"]) /\ Done(res["s321"])) =>
              res["s123"].result /= res["s321"].result
        /\ (Done(res["sl12"]) /\ Done(res["sl21"])) =>
              res["sl12"].result /= res["sl21"].result

RECURSIVE Join(_, _)
\* the parts in their order with sep between every two of them
Join(parts, sep) ==
    IF parts = <<>> THEN <<>>
    ELSE IF Len(parts) = 1 THEN parts[1]
    ELSE parts[1] \o sep \o Join(Tail(parts), sep)

\* v is an array, a slice, a struct or a sequence of ints, or a sequence of pairs
\* of ints, and its encoder is an ordered one
FlatOrdered(v) ==
    /\ IsValid(v)
    /\ \/ VKind(v) = "Array" /\ ~opts.UnorderedArray
       \/ VKind(v) = "Slice" /\ ~opts.UnorderedSlice
       \/ VKind(v) = "Struct" /\ ~opts.UnorderedStruct /\ v.elems /= <<>>
       \/ VKind(v) = "Seq" /\ ~opts.UnorderedSeq
       \/ VKind(v) = "Seq2" /\ ~opts.UnorderedSeq2
    /\ Delegate(v.t) = ""
    /\ \A i \in 1..Len(v.elems) : v.elems[i].t = "int"
    /\ \A i \in 1..Len(v.keys) : v.keys[i].t = "int"

\* the children of v that are not skipped, by their index
EmittedChildren(v) ==
    SelectSeq([i \in 1..Len(v.elems) |-> i],
              LAMBDA i : ~(opts.IgnoreZero /\ v.elems[i].n = 0))

\* what the i-th child of v comes to: its int, after its field name or its key
ChildBytes(v, i) ==
    CASE VKind(v) = "Struct" -> Field(v.t, i).name \o colon \o PutUint64(v.elems[i].n)
      [] VKind(v) = "Seq2" -> PutUint64(v.keys[i].n) \o colon \o PutUint64(v.elems[i].n)
      [] OTHER -> PutUint64(v.elems[i].n)

\* one start marker, the emitted children with one comma between every two of
\* them, one end marker
Framed(v) ==
    startList
    \o Join([j \in 1..Len(EmittedChildren(v)) |-> ChildBytes(v, EmittedChildren(v)[j])],
            comma)
    \o endList

\* C27: an ordered encoding of an array, a slice, a struct, a sequence or a
\* sequence of pairs is one start marker, the children that are not skipped with
\* exactly one separator between every two of them, and one end marker; a child
\* skipped under IgnoreZero leaves neither bytes nor a separator, be it the
\* first, a middle or the last one.
C27_OrderedFraming ==
    ( /\ Done(last) /\ last.err = "nil"
      /\ FlatOrdered(InputValue[last.v])
      /\ ~(opts.IgnoreZero /\ IsZero(InputValue[last.v])) )
    => last.bytes = Framed(InputValue[last.v])

\* under IgnoreZero a slice whose first element is skipped, a sequence whose
\* last value is skipped and a sequence of pairs whose first and last pairs are
\* skipped were encoded
C27_Witness ==
    /\ opts.IgnoreZero
    /\ Done(res["s012"]) /\ Done(res["q120"]) /\ Done(res["kv0560"])
    /\ Len(res["s012"].bytes) = 19
    /\ Len(res["q120"].bytes) = 19
    /\ Len(res["kv0560"].bytes) = 37

\* v is a map from strings to ints, or an array, a slice or a struct of ints
\* whose encoder is a fold
FlatFolded(v) ==
    /\ IsValid(v)
    /\ \/ VKind(v) = "Map"
       \/ VKind(v) = "Array" /\ opts.UnorderedArray
       \/ VKind(v) = "Slice" /\ opts.UnorderedSlice
       \/ VKind(v) = "Struct" /\ opts.UnorderedStruct
    /\ Delegate(v.t) = ""
    /\ \A i \in 1..Len(v.elems) : v.elems[i].t = "int"
    /\ \A i \in 1..Len(v.keys) : v.keys[i].t = "string"

\* the sub-digest of the i-th element of v: of the element alone, or of it after
\* its key or its field name and the colon
SubDigest(v, i) ==
    Sum64(CASE VKind(v) = "Map" -> v.keys[i].s \o colon \o PutUint64(v.elems[i].n)
            [] VKind(v) = "Struct" ->
                 Field(v.t, i).name \o colon \o PutUint64(v.elems[i].n)
            [] OTHER -> PutUint64(v.elems[i].n))

RECURSIVE XorOfSubDigests(_, _)
\* the XOR of the sub-digests of the elements of v at the indexes idx
XorOfSubDigests(v, idx) ==
    IF idx = <<>> THEN 0
    ELSE Xor(SubDigest(v, Head(idx)), XorOfSubDigests(v, Tail(idx)))

\* the start-set marker, the XOR of the sub-digests if it is not 0, the end-set
\* marker
Folded(v) ==
    LET x == XorOfSubDigests(v, EmittedChildren(v))
    IN startSet \o (IF x = 0 THEN <<>> ELSE PutUint64(x)) \o endSet

ScalarWidth(v) ==
    CASE ~IsValid(v) -> 0
      [] VKind(v) \in IntKinds \union UintKinds \union FloatKinds -> 8
      [] VKind(v) \in ComplexKinds -> 16
      [] VKind(v) = "Bool" -> 1
      [] OTHER -> 0

AllOnes == <<255, 255, 255, 255, 255, 255, 255, 255>>
OneAndAHalf == <<0, 0, 0, 0, 0, 0, 248, 63>>          \* 0x3FF8000000000000
MinusTwo == <<0, 0, 0, 0, 0, 0, 0, 192>>              \* 0xC000000000000000

\* C29: every integer kind and every float kind is written as exactly 8
\* little-endian bytes, a signed value sign-extended to 64 bits and taken
\* modulo 2^64, a float32 widened to the bits of the float64; a complex
\* number is written as two such words and a bool as the one byte 0 or 1.
\* So int8(-1), int64(-1) and uint64(2^64-1) write the same bytes.
C29_FixedWidthScalars ==
    /\ \A name \in DOMAIN res :
          Done(res[name]) /\ ScalarWidth(InputValue[name]) > 0 =>
              Len(res[name].bytes) = ScalarWidth(InputValue[name])
    /\ \A name \in {"i8m1", "i64m1", "u64max"} : Done(res[name]) => res[name].bytes = AllOnes
    /\ Done(res["i258"]) => res["i258"].bytes = <<2, 1, 0, 0, 0, 0, 0, 0>>
    /\ Done(res["u8x"]) => res["u8x"].bytes = <<200, 0, 0, 0, 0, 0, 0, 0>>
    /\ \A name \in {"f32", "f64"} : Done(res[name]) => res[name].bytes = OneAndAHalf
    /\ Done(res["fm2"]) => res["fm2"].bytes = MinusTwo
    /\ Done(res["c128"]) => res["c128"].bytes = OneAndAHalf \o MinusTwo
    /\ Done(res["btrue"]) => res["btrue"].bytes = <<1>>
    /\ Done(res["bfalse"]) => res["bfalse"].bytes = <<0>>

C29_Witness ==
    /\ Done(res["i8m1"]) /\ Done(res["i64m1"]) /\ Done(res["u64max"])
    /\ res["i8m1"].bytes = res["u64max"].bytes
    /\ res["i64m1"].bytes = AllOnes

\* the containers the goroutines inside Hash hold as the container of their call
InHash(g) == th[g].pc = "makeHashFunc"

\* in a call's pool traffic no container is taken while the call holds it
HeldOnce(log) ==
    \A n \in 1..Len(log), c \in 1..Len(log) :
        Count(SubSeq(log, 1, n), <<"get", c>>) - Count(SubSeq(log, 1, n), <<"put", c>>)
            \in {0, 1}

Taken(log) == {log[i][2] : i \in {j \in 1..Len(log) : log[j][1] = "get"}}

====
